---- MODULE Spec2Model ----
(***************************************************************************)
(* Model of the ingestion path of the book RAG backend.                    *)
(*                                                                         *)
(*   Part I   services/structure_extractor.py: the rolling-cursor loop of  *)
(*            extract_structure and its helpers (specification Spec).      *)
(*   Part II  routers/books.py: upload_book, trigger_processing and        *)
(*            process_book over the record store (specification SpecBooks).*)
(*                                                                         *)
(* Texts are sequences of one-character strings, positions are 0-based as  *)
(* in Python; text[i+1] is the character at Python index i.  The character *)
(* counts of the source (40,000-character window, 200/100-character look-  *)
(* ahead) are scaled down so that whole texts can be enumerated; the       *)
(* proportions the code computes (90% search start, 80% shrink) are kept.  *)
(***************************************************************************)
EXTENDS Integers, Sequences, FiniteSets, TLC

VARIABLES
    \* ---- Part I: extract_structure ----
    text,                  \* the Source Text (argument `text`)
    pc,                    \* position inside extract_structure
    current_pos,           \* rolling cursor
    end_pos,               \* end of the window last sliced
    chunk_text,            \* the window last sliced
    is_last_chunk,         \* computed once per window (line 261)
    retry_count,           \* inner retry counter (line 285)
    chunk_number,          \* outer loop iterations started
    accumulated_chapters,  \* insertion-ordered dict, as a sequence of chapters
    prompt,                \* what the most recent oracle call was sent
    window_calls,          \* oracle calls made for the current window
    iter_start,            \* cursor at the start of the current iteration
    last_event,            \* how the most recent iteration ended
    result,                \* value returned by extract_structure, or the raise
    stub,                  \* which part of its answers the oracle stub of this run varies
    \* ---- Part II: routers/books.py over the record store ----
    book,                  \* the row of table books for the file hash
    access,                \* rows of table user_book_access
    parent_chunks,         \* rows of table parent_chunks
    child_chunks,          \* rows of table child_chunks
    req,                   \* the requests being served, each with its handler's locals
    started,               \* requests received so far
    stubs,                 \* how the oracle and embedding stubs answer for this file's text
    passes,                \* summary of every process_book run that has ended
    \* ---- Part III: routers/chat.py, one query ----
    message,               \* chat_message.message
    has_existing_artifact, \* an assistant message of the history holds an artifact
    query,                 \* entry point, len(book_ids), whether chat_message.book_id is set
    flags,                 \* is_reasoning_query, is_action_planner_query, is_global_query
    index,                 \* how the stub indexes answer the query
    store,                 \* child rows of each book, and whether the book has a global_summary
    qpc,                   \* position inside chat / stream_chat_response
    calls,                 \* the searches invoked so far, in order
    generations,           \* the calls of the generation oracle: path and number of units
    reply,                 \* what the user gets
    \* ---- Part IV: services/chunk_utils.py and the source list of chat.py ----
    chunks,                \* the Child Units a search returned
    parent_rows,           \* stub of parent_chunks: what the fetch of a row does
    apc,                   \* position in the assembly
    seen_parent_ids,       \* chunk_utils.py:37
    enhanced_chunks,       \* chunk_utils.py:36
    fetches,               \* requests sent to parent_chunks
    context_parts,         \* chat.py:1219
    sources,               \* chat.py:1221
    source_set,            \* chat.py:1222
    sources_list,          \* chat.py:1261
    minted,                \* the calls of generate_chunk_id and their results
    \* ---- Part V: the functions of structure_extractor.py, called on their own ----
    fn_in,                 \* the arguments of the call
    fn_out                 \* what the call returned

extractVars == << text, pc, current_pos, end_pos, chunk_text, is_last_chunk,
                  retry_count, chunk_number, accumulated_chapters, prompt,
                  window_calls, iter_start, last_event, result, stub >>

bookVars == << book, access, parent_chunks, child_chunks, req, started, stubs, passes >>

chatVars == << message, has_existing_artifact, query, flags, index, store, qpc, calls,
               generations, reply >>

contextVars == << chunks, parent_rows, apc, seen_parent_ids, enhanced_chunks, fetches,
                 context_parts, sources, source_set, sources_list, minted >>

pureVars == << fn_in, fn_out >>

answerVars == << chatVars, contextVars, pureVars >>

----------------------------------------------------------------------------
(* Bounds and scaled program constants *)

\* chunk_size = 40000 (structure_extractor.py:239), scaled.
chunk_size == 11
\* paragraph[-200:] (structure_extractor.py:170), scaled.
ParaTailLen == 3
\* text.find('\n\n', potential_end, potential_end + 100) (line 177), scaled.
BoundaryLookahead == 3
\* text.find('\n\n', para_end_pos, para_end_pos + 200) (line 386), scaled.
NextParaLookahead == 4
\* max_retries = 2 (structure_extractor.py:284)
max_retries == 2
\* longest Source Text enumerated beyond one window
MaxExtra == 2
\* sections the oracle returns in total before it only returns empty fragments
MaxSections == 2

NL == "\n"
None == "None"

Min(S) == CHOOSE x \in S : \A y \in S : x <= y
Max(S) == CHOOSE x \in S : \A y \in S : x >= y
MinOf(a, b) == IF a <= b THEN a ELSE b
MaxOf(a, b) == IF a >= b THEN a ELSE b

----------------------------------------------------------------------------
(* Python string primitives *)

\* text[a:b] for 0 <= a, b (Python slice, clipped to the text)
Slice(s, a, b) == SubSeq(s, a + 1, MinOf(b, Len(s)))

\* s.find(sub, start, end): lowest index of sub lying wholly in [start, end)
Find(s, sub, start, end) ==
    LET e == MinOf(end, Len(s))
        hits == { i \in start .. (e - Len(sub)) :
                    \A k \in 1 .. Len(sub) : s[i + k] = sub[k] }
    IN  IF hits = {} THEN -1 ELSE Min(hits)

\* s.rfind(sub, start, end): highest index of sub lying wholly in [start, end)
RFind(s, sub, start, end) ==
    LET e == MinOf(end, Len(s))
        hits == { i \in start .. (e - Len(sub)) :
                    \A k \in 1 .. Len(sub) : s[i + k] = sub[k] }
    IN  IF hits = {} THEN -1 ELSE Max(hits)

----------------------------------------------------------------------------
(* get_safe_chunk_boundary (structure_extractor.py:54-90) *)

\* variant: the last half of the window is searched
HalfOf(target_size) == target_size \div 2

\* int(target_size * 0.9)
NinetyPercent(target_size) == (target_size * 9) \div 10

\* variant: the line-boundary cut taken without the `> start_pos` test of line 86
get_safe_chunk_boundary_unguarded(txt, start_pos, target_size, text_length) ==
    LET end0 == MinOf(start_pos + target_size, text_length)
        search_start == MaxOf(start_pos + NinetyPercent(target_size), start_pos)
        last_double_newline == RFind(txt, << NL, NL >>, search_start, end0)
        last_newline == RFind(txt, << NL >>, search_start, end0)
        end1 == IF last_double_newline > start_pos THEN last_double_newline + 2
                ELSE last_newline + 1
    IN  IF end0 >= text_length
        THEN [end_pos |-> text_length, chunk_text |-> Slice(txt, start_pos, text_length)]
        ELSE [end_pos |-> end1, chunk_text |-> Slice(txt, start_pos, end1)]

get_safe_chunk_boundary(txt, start_pos, target_size, text_length) ==
    LET end0 == MinOf(start_pos + target_size, text_length)
        search_start == MaxOf(start_pos + NinetyPercent(target_size), start_pos)
        search_end == end0
        last_double_newline == RFind(txt, << NL, NL >>, search_start, search_end)
        last_newline == RFind(txt, << NL >>, search_start, search_end)
        end1 == IF last_double_newline > start_pos THEN last_double_newline + 2
                ELSE IF last_newline > start_pos THEN last_newline + 1
                ELSE end0
    IN  IF end0 >= text_length
        THEN [end_pos |-> text_length, chunk_text |-> Slice(txt, start_pos, text_length)]
        ELSE [end_pos |-> end1, chunk_text |-> Slice(txt, start_pos, end1)]

----------------------------------------------------------------------------
(* find_paragraph_position (structure_extractor.py:149-182) *)

find_paragraph_position(txt, paragraph, search_start) ==
    LET pos == Find(txt, paragraph, search_start, Len(txt))
        para_end == IF Len(paragraph) > ParaTailLen
                    THEN SubSeq(paragraph, Len(paragraph) - ParaTailLen + 1, Len(paragraph))
                    ELSE paragraph
        pos2 == Find(txt, para_end, search_start, Len(txt))
        potential_end == pos2 + Len(para_end)
        next_boundary == Find(txt, << NL, NL >>, potential_end,
                              potential_end + BoundaryLookahead)
    IN  IF paragraph = << >> THEN -1
        ELSE IF pos >= 0 THEN pos + Len(paragraph)
        ELSE IF pos2 >= 0
             THEN IF next_boundary > potential_end THEN next_boundary ELSE potential_end
        ELSE -1

----------------------------------------------------------------------------
(* The structuring oracle (client.chat.completions.create, lines 291-301)   *)
(* is an untrusted collaborator: each call raises, or returns text that     *)
(* json.loads rejects, or returns text that parses to some JSON value.      *)

\* a last_processed_paragraph that is a JSON number, not a string
NonString == << "<number>" >>

Section(t, ps) == [section_title |-> t, paragraphs |-> ps]
\* chapter_title is None when the key is absent
Chapter(t, secs) ==
    [is_object |-> TRUE, chapter_title |-> t, has_sections |-> TRUE, sections |-> secs]
\* a chapter without the "sections" key
ChapterNoSections(t) ==
    [is_object |-> TRUE, chapter_title |-> t, has_sections |-> FALSE, sections |-> << >>]
\* a chapter entry that is not a JSON object
NotAnObject ==
    [is_object |-> FALSE, chapter_title |-> None, has_sections |-> FALSE, sections |-> << >>]

S1 == Section("S1", << "p" >>)
S2 == Section("S2", << >>)

NumSections(ch) ==
    Len(ch.sections)

RECURSIVE TotalSections(_)
TotalSections(chs) ==
    IF chs = << >> THEN 0
    ELSE NumSections(Head(chs)) + TotalSections(Tail(chs))

\* the "chapters" arrays the oracle stub may return
ChapterLists ==
    { << >>,
      << Chapter("A", << S1 >>) >>,
      << Chapter("A", << S2 >>) >>,
      << Chapter("B", << S1 >>) >>,
      << ChapterNoSections("A") >>,
      << Chapter(None, << S1 >>) >>,
      << Chapter("B", << S1 >>), Chapter("A", << S2 >>) >>,
      << Chapter("A", << S1 >>), NotAnObject >> }

\* values of last_processed_paragraph: absent/empty, text that occurs nowhere,
\* a non-string, any short substring of the Source Text at or after the
\* cursor, and a long paragraph of which only the tail occurs in the text
MaxParaLen == 2

ParaChoices(txt, cur) ==
    { << >>, << "z" >>, NonString }
    \cup UNION { { Slice(txt, i, j) : j \in i + 1 .. MinOf(i + MaxParaLen, Len(txt)) } :
                 i \in cur .. Len(txt) - 1 }
    \cup { << "z" >> \o Slice(txt, i, i + ParaTailLen) : i \in cur .. Len(txt) - ParaTailLen }

\* a parsed JSON object; wrapper says where the chapters array sits:
\*   "document" {"document": {"chapters": ...}},  "bare" {"chapters": ...},
\*   "none" neither key
\* has_chapters is FALSE when the "chapters" key is absent
JObject(wr, has, chs, lp, se) ==
    [type |-> "object", wrapper |-> wr, has_chapters |-> has, chapters |-> chs,
     last_processed_paragraph |-> lp, stopped_early |-> se]
JNull == [type |-> "null"]
JArray == [type |-> "array"]

\* The answers of one run's oracle stub.  A "marker" stub varies
\* last_processed_paragraph and returns no chapters (or a malformed entry); a
\* "chapters" stub varies the chapters and returns no marker.
StubParas(st, txt, cur) ==
    IF st = "marker" THEN ParaChoices(txt, cur) ELSE { << >> }

StubChapterLists(st, acc) ==
    IF st = "marker" THEN { << >>, << NotAnObject >> }
    ELSE { c \in ChapterLists : TotalSections(acc) + TotalSections(c) <= MaxSections }

StubWrappers(st) ==
    IF st = "marker" THEN {"document"} ELSE {"document", "bare"}

JsonValues(st, txt, cur, acc) ==
    { JNull, JArray }
    \cup { JObject(wr, TRUE, chs, lp, se) :
             wr \in StubWrappers(st),
             chs \in StubChapterLists(st, acc),
             lp \in StubParas(st, txt, cur),
             se \in BOOLEAN }
    \cup { JObject(wr, FALSE, << >>, lp, se) :
             wr \in {"none"},
             lp \in StubParas(st, txt, cur),
             se \in BOOLEAN }

----------------------------------------------------------------------------
(* Merging a fragment's chapters (structure_extractor.py:405-425) *)

TitleOf(ch) == IF ch.chapter_title = None THEN "Untitled Chapter" ELSE ch.chapter_title

IndexOfTitle(acc, t) ==
    LET hits == { i \in 1 .. Len(acc) : TitleOf(acc[i]) = t }
    IN  IF hits = {} THEN 0 ELSE Min(hits)

\* variant: the new sections are put before those already held
MergeChapter_prepending(acc, chapter) ==
    IF ~chapter.is_object
    THEN [acc |-> acc, raised |-> TRUE]
    ELSE LET t == TitleOf(chapter)
             i == IndexOfTitle(acc, t)
             new_sections == IF chapter.has_sections THEN chapter.sections ELSE << >>
         IN  IF i > 0
             THEN IF ~acc[i].has_sections
                  THEN [acc |-> acc, raised |-> TRUE]
                  ELSE [acc |-> [acc EXCEPT ![i].sections = new_sections \o @],
                        raised |-> FALSE]
             ELSE [acc |-> Append(acc, [chapter EXCEPT !.chapter_title = t]),
                   raised |-> FALSE]

\* one pass of the for-loop body; [acc, raised]
MergeChapter(acc, chapter) ==
    IF ~chapter.is_object
    THEN [acc |-> acc, raised |-> TRUE]                 \* chapter.get: AttributeError
    ELSE LET t == TitleOf(chapter)
             i == IndexOfTitle(acc, t)
             new_sections == IF chapter.has_sections THEN chapter.sections ELSE << >>
         IN  IF i > 0
             THEN IF ~acc[i].has_sections
                  THEN [acc |-> acc, raised |-> TRUE]   \* ["sections"]: KeyError
                  ELSE [acc |-> [acc EXCEPT ![i].sections = @ \o new_sections],
                        raised |-> FALSE]
             ELSE [acc |-> Append(acc, [chapter EXCEPT !.chapter_title = t]),
                   raised |-> FALSE]

RECURSIVE MergeChapters(_, _)
MergeChapters(acc, chs) ==
    IF chs = << >> THEN [acc |-> acc, raised |-> FALSE]
    ELSE LET r == MergeChapter(acc, Head(chs))
         IN  IF r.raised THEN r ELSE MergeChapters(r.acc, Tail(chs))

\* lines 406-425: only a fragment with "document" and "chapters" is merged
MergeFragment(acc, j) ==
    IF j.wrapper = "document" /\ j.has_chapters
    THEN MergeChapters(acc, j.chapters)
    ELSE [acc |-> acc, raised |-> FALSE]

\* line 456: chapters kept in the returned structure
all_chapters(acc) ==
    SelectSeq(acc, LAMBDA ch : ch.has_sections /\ ch.sections # << >>)

----------------------------------------------------------------------------
(* Next cursor after a parsed fragment (structure_extractor.py:369-396) *)

NextPos(txt, last_para, cur, endp) ==
    LET para_end_pos == find_paragraph_position(txt, last_para, cur)
        next_para_start == Find(txt, << NL, NL >>, para_end_pos,
                                para_end_pos + NextParaLookahead)
    IN  IF last_para = << >> THEN endp
        ELSE IF para_end_pos > cur
             THEN IF next_para_start > para_end_pos THEN next_para_start + 2
                  ELSE para_end_pos
        ELSE endp

----------------------------------------------------------------------------
(* Source Texts enumerated *)

Letter(i) == << "a", "b", "c", "d" >>[(i % 4) + 1]

\* the text of length n whose newline characters sit at the positions in nl
MkText(n, nl) == [i \in 1 .. n |-> IF (i - 1) \in nl THEN NL ELSE Letter(i)]

\* int(chunk_size * 0.8)
EightyPercent(size) == (size * 8) \div 10

\* newline layouts: around the last 10% of the first window, around the last
\* 10% of the shrunken window, and paragraph separators near the start
NewlineSets ==
    LET w == NinetyPercent(chunk_size)
        r == NinetyPercent(EightyPercent(chunk_size))
    IN  { {}, {w, w + 1}, {w - 1, w}, {r}, {2, 3, w + 1}, {4, 5, 6} }

LongTexts  == { MkText(n, nl) : n \in {chunk_size + 1, chunk_size + MaxExtra},
                                nl \in NewlineSets }
\* the texts a "chapters" stub is run on
MergeTexts == { MkText(chunk_size + MaxExtra, {}), MkText(chunk_size, {}) }
ShortTexts == { MkText(n, nl) : n \in {3, chunk_size}, nl \in {{}, {1}} }

----------------------------------------------------------------------------
(* extract_structure (structure_extractor.py:184-531) *)

NoEvent == [outcome |-> "none", para |-> "none", stopped_early |-> FALSE]
NoPrompt == [chunk_text |-> << >>, is_last_chunk |-> FALSE]
NoResult == [kind |-> "none"]
Returned(chs) == [kind |-> "returned", document |-> [chapters |-> chs]]
Raised == [kind |-> "raised"]
Event(outcome, para, se) ==
    [outcome |-> outcome, para |-> para, stopped_early |-> se]

InitExtract ==
    /\ stub \in {"marker", "chapters"}
    /\ text \in IF stub = "marker" THEN LongTexts \cup ShortTexts ELSE MergeTexts
    /\ pc = "start"
    /\ current_pos = 0
    /\ end_pos = 0
    /\ chunk_text = << >>
    /\ is_last_chunk = FALSE
    /\ retry_count = 0
    /\ chunk_number = 0
    /\ accumulated_chapters = << >>
    /\ prompt = NoPrompt
    /\ window_calls = 0
    /\ iter_start = 0
    /\ last_event = NoEvent
    /\ result = NoResult

\* lines 239-249: choose the rolling loop or the single call
Enter ==
    /\ pc = "start"
    /\ pc' = IF Len(text) > chunk_size THEN "loop" ELSE "short"
    /\ UNCHANGED << bookVars, answerVars, stub, text, current_pos, end_pos, chunk_text, is_last_chunk, retry_count,
                    chunk_number, accumulated_chapters, prompt, window_calls,
                    iter_start, last_event, result >>

\* cap of the iteration counter in the model; C2 shows it is never reached
MaxIterations(txt) == Len(txt) + 1

\* lines 251-287: top of the while loop, slice the window and build the prompt
WindowStart ==
    /\ pc = "loop"
    /\ current_pos < Len(text)
    /\ chunk_number < MaxIterations(text)
    /\ LET b == get_safe_chunk_boundary(text, current_pos, chunk_size, Len(text))
       IN  /\ end_pos' = b.end_pos
           /\ chunk_text' = b.chunk_text
           /\ is_last_chunk' = (b.end_pos >= Len(text))
           /\ prompt' = [chunk_text |-> b.chunk_text,
                         is_last_chunk |-> (b.end_pos >= Len(text))]
    /\ chunk_number' = chunk_number + 1
    /\ retry_count' = 0
    /\ window_calls' = 0
    /\ iter_start' = current_pos
    /\ last_event' = NoEvent
    /\ pc' = "call"
    /\ UNCHANGED << bookVars, answerVars, stub, text, current_pos, accumulated_chapters, result >>

\* variant: the handlers continue without moving the cursor
SkipWindow_no_advance(reason) ==
    /\ pc' = "loop"
    /\ last_event' = Event(reason, "none", FALSE)
    /\ UNCHANGED << bookVars, answerVars, stub, text, current_pos, end_pos, chunk_text, is_last_chunk,
                    retry_count, chunk_number, accumulated_chapters, prompt,
                    iter_start, result >>

\* lines 438-453: both outer handlers advance to the window's end and continue
SkipWindow(reason) ==
    /\ current_pos' = end_pos
    /\ pc' = "loop"
    /\ last_event' = Event(reason, "none", FALSE)
    /\ UNCHANGED << bookVars, answerVars, stub, text, end_pos, chunk_text, is_last_chunk, retry_count, chunk_number,
                    accumulated_chapters, prompt, iter_start, result >>

\* whether another attempt is allowed (lines 322 and 359)
\* variant: `<=` in place of `<`
MayRetry_off_by_one(count) == count <= max_retries

MayRetry(count) == count < max_retries

\* lines 358-364: the oracle call raised
OracleRaises ==
    /\ pc = "call"
    /\ window_calls' = window_calls + 1
    /\ IF MayRetry(retry_count)
       THEN /\ retry_count' = retry_count + 1
            /\ UNCHANGED << bookVars, answerVars, stub, text, pc, current_pos, end_pos, chunk_text, is_last_chunk,
                            chunk_number, accumulated_chapters, prompt, iter_start,
                            last_event, result >>
       ELSE SkipWindow("raised")

\* lines 366-436: a fragment was obtained (parsed, or parsed after repair)
ProcessFragment(j) ==
    IF j.type # "object"
    THEN SkipWindow("error")              \* None check (367) or .get on a non-dict
    ELSE IF j.last_processed_paragraph = NonString
    THEN SkipWindow("error")              \* text.find(non-string): TypeError
    ELSE LET last_para == j.last_processed_paragraph
             next_pos == NextPos(text, last_para, current_pos, end_pos)
             m == MergeFragment(accumulated_chapters, j)
             para == IF last_para = << >> THEN "missing"
                     ELSE IF find_paragraph_position(text, last_para, current_pos)
                               > current_pos
                          THEN "found" ELSE "unfindable"
         IN  /\ accumulated_chapters' = m.acc
             /\ current_pos' = IF m.raised THEN end_pos
                               ELSE IF next_pos <= current_pos THEN end_pos
                               ELSE next_pos
             /\ last_event' = IF m.raised THEN Event("error", "none", FALSE)
                              ELSE Event("fragment", para, j.stopped_early)
             /\ pc' = "loop"
             /\ UNCHANGED << bookVars, answerVars, stub, text, end_pos, chunk_text, is_last_chunk, retry_count,
                             chunk_number, prompt, iter_start, result >>

\* lines 301-306: the response parses
OracleParsed ==
    /\ pc = "call"
    /\ window_calls' = window_calls + 1
    /\ \E j \in JsonValues(stub, text, current_pos, accumulated_chapters) :
          ProcessFragment(j)

\* lines 311-319: repair is attempted on the first attempt only
RepairAttempted == retry_count = 0

\* lines 307-356: the response does not parse; repaired says whether
\* json.loads(repair_truncated_json(raw_response)) would succeed, yielding j
OracleUnparseable ==
    /\ pc = "call"
    /\ window_calls' = window_calls + 1
    /\ \E repaired \in BOOLEAN :
         IF RepairAttempted /\ repaired
         THEN \E j \in JsonValues(stub, text, current_pos, accumulated_chapters) :
                 ProcessFragment(j)
         ELSE IF MayRetry(retry_count)
         THEN LET b == get_safe_chunk_boundary(text, current_pos,
                                               EightyPercent(chunk_size), Len(text))
              IN  /\ end_pos' = b.end_pos
                  /\ chunk_text' = b.chunk_text
                  /\ prompt' = [chunk_text |-> b.chunk_text,
                                is_last_chunk |-> is_last_chunk]
                  /\ retry_count' = retry_count + 1
                  /\ UNCHANGED << bookVars, answerVars, stub, text, pc, current_pos, is_last_chunk, chunk_number,
                                  accumulated_chapters, iter_start, last_event, result >>
         ELSE SkipWindow("unparseable")

\* lines 251, 455-467: the cursor reached the end, return the merged structure
LoopExit ==
    /\ pc = "loop"
    /\ current_pos >= Len(text)
    /\ result' = Returned(all_chapters(accumulated_chapters))
    /\ pc' = "returned"
    /\ UNCHANGED << bookVars, answerVars, stub, text, current_pos, end_pos, chunk_text, is_last_chunk, retry_count,
                    chunk_number, accumulated_chapters, prompt, window_calls,
                    iter_start, last_event >>

\* lines 496-520: validation of the single-call response
ShortValid(j) ==
    /\ j.type = "object"
    /\ j.wrapper \in {"document", "bare"}
    /\ j.has_chapters

\* lines 469-531: a text of at most chunk_size characters, one call, no retry
ShortCall ==
    /\ pc = "short"
    /\ window_calls' = window_calls + 1
    /\ \E response \in {"raised", "unparseable", "parsed"} :
       \E j \in JsonValues(stub, text, Len(text), << >>) :
          /\ IF response = "parsed" /\ ShortValid(j)
             THEN /\ result' = Returned(j.chapters)
                  /\ pc' = "returned"
             ELSE /\ result' = Raised
                  /\ pc' = "raised"
          /\ last_event' = Event(response, "none", FALSE)
    /\ UNCHANGED << bookVars, answerVars, stub, text, current_pos, end_pos, chunk_text, is_last_chunk, retry_count,
                    chunk_number, accumulated_chapters, prompt, iter_start >>

NextExtract ==
    \/ Enter
    \/ WindowStart
    \/ OracleRaises
    \/ OracleParsed
    \/ OracleUnparseable
    \/ LoopExit
    \/ ShortCall

----------------------------------------------------------------------------
(* Part II: routers/books.py over the record store                         *)
(*                                                                         *)
(* One file (one file hash) is followed.  A handler is a sequence of steps,*)
(* one per call to the store or to a collaborator; steps of different      *)
(* workers interleave.  Two places of the code end every run that reaches  *)
(* them: line 241 reads retry_mode, which only the path of an existing     *)
(* record has bound (line 93), and line 451 passes four positional         *)
(* arguments to extract_structure, which declares three.  Both raises are  *)
(* outcomes of the steps U_NewFile and PB_Start; the other outcomes of     *)
(* these two steps lead into the code that follows them, so that this code *)
(* is covered as well.                                                     *)

\* timedelta(minutes=2) (books.py:149)
StaleMinutes == 2
\* longest time_since_update enumerated, in minutes
MaxAge == 3
\* requests received in one behaviour
MaxRequests == 2

Users == {"u1", "u2"}
\* current_user.get("role") (books.py:665)
Roles == {"user", "admin"}
\* server workers; a worker serves one request at a time, since the handlers
\* are blocked in the executor's `with` block until process_book has ended
Workers == {"w1", "w2"}

\* ---- rows of the store ----

NoBook == [exists |-> FALSE, status |-> "none", processing_error |-> "none"]

\* updated_at is kept by the store and never written by the code: a read
\* yields null, a string fromisoformat rejects, or an ISO timestamp.  How
\* long ago that timestamp lies when line 147 reads the clock is up to the
\* environment: any number of minutes may have passed since the last write.
TimestampKinds == {"none", "unparseable", "iso"}

NoId == [run |-> 0, seq |-> 0]

AccessRow(u, owner) == [user_id |-> u, is_owner |-> owner]

ParentRow(id, chapter_title, section_title, full_text) ==
    [id |-> id, chapter_title |-> chapter_title, section_title |-> section_title,
     full_text |-> full_text]

ChildRow(parent_id, txt, paragraph_index) ==
    [parent_id |-> parent_id, text |-> txt, paragraph_index |-> paragraph_index]

\* ---- lines 466-490: from the structure to the sections that are stored ----

Whitespace == {" ", NL}

RECURSIVE LStrip(_)
LStrip(s) ==
    IF s # << >> /\ Head(s) \in Whitespace THEN LStrip(Tail(s)) ELSE s

RECURSIVE RStrip(_)
RStrip(s) ==
    IF s # << >> /\ s[Len(s)] \in Whitespace
    THEN RStrip(SubSeq(s, 1, Len(s) - 1)) ELSE s

\* str.strip()
Strip(s) == RStrip(LStrip(s))

\* a JSON null among the paragraphs
NullParagraph == << "<null>" >>

\* variant: no paragraph is filtered out
KeepParagraph_all(p) == TRUE

\* line 482: p is not None and str(p).strip()
KeepParagraph(p) == p # NullParagraph /\ Strip(p) # << >>

\* lines 480-483
Paragraphs(section) ==
    LET kept == SelectSeq(section.paragraphs, KeepParagraph)
    IN  [i \in 1 .. Len(kept) |-> Strip(kept[i])]

\* "\n\n".join(paragraphs) (line 490)
RECURSIVE JoinParagraphs(_)
JoinParagraphs(ps) ==
    IF ps = << >> THEN << >>
    ELSE IF Len(ps) = 1 THEN ps[1]
    ELSE ps[1] \o << NL, NL >> \o JoinParagraphs(Tail(ps))

\* lines 467, 475-477: one entry per section of a chapter
ChapterSections(ch) ==
    LET secs == IF ch.has_sections THEN ch.sections ELSE << >>
        chapter_title == IF ch.chapter_title = None THEN "Untitled Chapter"
                         ELSE ch.chapter_title
    IN  [i \in 1 .. Len(secs) |->
            [chapter_title |-> chapter_title,
             section_title |-> IF secs[i].section_title = None THEN ""
                               ELSE secs[i].section_title,
             paragraphs |-> Paragraphs(secs[i])]]

RECURSIVE AllSections(_)
AllSections(chs) ==
    IF chs = << >> THEN << >>
    ELSE ChapterSections(Head(chs)) \o AllSections(Tail(chs))

\* line 486: sections without paragraphs are skipped
HasParagraphs(sec) == sec.paragraphs # << >>

\* the sections the two loops reach line 489 with, in order
Worklist(chs) == SelectSeq(AllSections(chs), HasParagraphs)

\* ---- structures the oracle stub yields ----

\* 2 non-empty paragraphs (to be stripped) around a blank one
ScenarioSection(t, a, b) == Section(t, << << " ", a >>, << " " >>, << b, NL >> >>)

ScenarioTree ==
    << Chapter("A", << ScenarioSection("A1", "a", "b"), ScenarioSection("A2", "c", "d") >>),
       Chapter("B", << ScenarioSection("B1", "e", "f") >>) >>

\* a section of blanks only, and an untitled section with a null paragraph
SmallTree ==
    << Chapter("A", << Section("A1", << << NL >>, << >> >>),
                       Section(None, << NullParagraph, << "c" >>, << "d", " " >> >>) >>) >>

EmptyTree == << >>

Trees == {ScenarioTree, SmallTree, EmptyTree}

\* The stubs are deterministic: what they answer depends on what they are
\* asked, and every run asks for the same text.  extract is how line 451 ends;
\* embed_how is what generate_embeddings_batch does for the paragraphs of
\* section number embed_at of the worklist (for all others it returns one
\* vector per text).
Stub(t, extract, embed_how, embed_at) ==
    [tree |-> t, extract |-> extract, embed_how |-> embed_how, embed_at |-> embed_at]

EmbeddingAnswers == {"raised", "short", "long"}

Stubs ==
    { Stub(t, e, "exact", 0) : t \in Trees, e \in {"TypeError", "raised", "returned"} }
    \cup
    UNION { { Stub(t, "returned", how, at) : how \in EmbeddingAnswers,
                                            at \in 1 .. Len(Worklist(t)) } : t \in Trees }

\* the stubs under which concurrent requests are followed
BooksStubs ==
    { st \in Stubs : \/ st.tree = EmptyTree /\ st.extract # "raised"
                     \/ st.tree = SmallTree /\ st.extract = "returned"
                                            /\ st.embed_how # "long" }

\* vectors returned for k texts (embedding_service.py:54-55 takes whatever
\* response.data holds)
VectorCount(k, answer) ==
    IF answer = "short" THEN k - 1
    ELSE IF answer = "long" THEN k + 1
    ELSE k

\* zip(child_texts, embeddings) (line 539) stops at the shorter list
ZipLength(k, n) == MinOf(k, n)

\* ---- requests ----

\* locals of a request a worker serves (names as in the handlers), and what
\* is remembered of its run for the properties: cleaned (both deletes
\* returned), overlapped (another pass of the document was under way during
\* this one), ended (the status process_book wrote last)
Idle ==
    [kind |-> "idle", user_id |-> "none", pc |-> "idle", run |-> 0,
     book_status |-> "none", has_chunks |-> FALSE, updated_at |-> "none",
     time_since_update |-> 0,
     retry_mode |-> "unbound", diagnostic |-> "none",
     sec |-> 0, parent_id |-> NoId, pairs |-> 0, idx |-> 0,
     cleaned |-> TRUE, overlapped |-> FALSE, ended |-> "none"]

\* positions from the first step that changes the document's units or starts
\* its run, to the end of process_book
PassPcs ==
    {"delete_children", "delete_parents", "set_processing", "update_book",
     "insert_book", "insert_access",
     "pb_start", "pb_parent", "pb_child",
     "pb_ready", "pb_error"}

InPass(r) == r.pc \in PassPcs

\* request r moves on with locals r2; the other requests stay as they are
Step(r, r2) == req' = (req \ {r}) \cup {r2}

\* request r starts a pass with locals r2
EnterPass(r, r2) ==
    LET others == \E o \in req \ {r} : InPass(o)
    IN  req' = { IF InPass(o) THEN [o EXCEPT !.overlapped = TRUE] ELSE o : o \in req \ {r} }
               \cup {[r2 EXCEPT !.overlapped = others]}

\* the handler has its response (or its HTTPException); of its locals only
\* what the stuck check saw and how the run ended are kept
Responding(r) ==
    [Idle EXCEPT !.kind = r.kind, !.pc = "respond", !.run = r.run,
                 !.has_chunks = r.has_chunks,
                 !.updated_at = r.updated_at, !.time_since_update = r.time_since_update,
                 !.ended = r.ended]

\* process_book leaves its loops
Leaving(r, pc_) ==
    [r EXCEPT !.pc = pc_, !.sec = 0, !.parent_id = NoId, !.pairs = 0, !.idx = 0]

\* ---- what the store holds, identifiers aside ----

ParentContent(p) == << p.chapter_title, p.section_title, p.full_text >>

NoParent == << "none", "none", << >> >>

ParentOf(c, parents) ==
    IF \E p \in parents : p.id = c.parent_id
    THEN ParentContent(CHOOSE p \in parents : p.id = c.parent_id)
    ELSE NoParent

Units(parents, children) ==
    [parents |-> { ParentContent(p) : p \in parents },
     children |-> { << ParentOf(c, parents), c.paragraph_index, c.text >> : c \in children },
     n_parents |-> Cardinality(parents),
     n_children |-> Cardinality(children)]

\* the two most recent runs that ended
Remember(ps, summary) ==
    IF Len(ps) < 2 THEN Append(ps, summary) ELSE << ps[2], summary >>

PassSummary(r, ended, parents, children) ==
    [ended |-> ended, cleaned |-> r.cleaned,
     overlapped |-> r.overlapped, units |-> Units(parents, children)]

BooksStart ==
    /\ book = NoBook
    /\ access = {}
    /\ parent_chunks = {}
    /\ child_chunks = {}
    /\ req = {}
    /\ started = 0
    /\ stubs \in BooksStubs
    /\ passes = << >>

\* one upload of a new file, for every stub
IngestStart ==
    /\ book = NoBook
    /\ access = {}
    /\ parent_chunks = {}
    /\ child_chunks = {}
    /\ req = {}
    /\ started = 0
    /\ stubs \in Stubs
    /\ passes = << >>

\* a worker is free to take a request; users differ only in who uploaded
\* first, so the first request is taken to be u1's
Arrives(u) ==
    /\ Cardinality(req) < Cardinality(Workers)
    /\ started < MaxRequests
    /\ started = 0 => u = "u1"

\* ---- upload_book (books.py:35-417) ----

\* a request arrives at a free worker
StartUpload(u) ==
    /\ Arrives(u)
    /\ started' = started + 1
    /\ req' = req \cup {[Idle EXCEPT !.kind = "upload", !.user_id = u, !.pc = "lookup",
                               !.run = started + 1]}
    /\ UNCHANGED << book, access, parent_chunks, child_chunks, stubs, passes, extractVars, answerVars >>

\* lines 85-125, 194, 230-238: look the file hash up; for a hash that is
\* stored, grant access and branch on the status read
U_Lookup(r) ==
    /\ r.pc = "lookup"
    /\ access' = IF book.exists /\ ~ \E a \in access : a.user_id = r.user_id
                 THEN access \cup {AccessRow(r.user_id, FALSE)}
                 ELSE access
    /\ LET found == [r EXCEPT !.book_status = book.status, !.retry_mode = "False"]
       IN  Step(r, IF ~ book.exists THEN [r EXCEPT !.pc = "new_file"]
                   ELSE IF found.book_status = "processing"
                   THEN [found EXCEPT !.pc = "stuck_check"]
                   ELSE IF found.book_status = "error"
                   THEN [found EXCEPT !.pc = "owner_check"]
                   ELSE Responding(found))
    /\ UNCHANGED << book, parent_chunks, child_chunks, started, stubs, passes, extractVars, answerVars >>

\* line 149
IsStale(time_since_update) == time_since_update > StaleMinutes

\* lines 127-151, 158-169, 175-178, 184-186: is the run stuck?  The count
\* may raise; updated_at is read when no chunk was counted, and the clock
\* when updated_at parses
U_StuckCheck(r) ==
    /\ r.pc = "stuck_check"
    /\ \E count_raises \in BOOLEAN :
       \E updated_at \in IF count_raises \/ child_chunks # {} THEN {"none"}
                         ELSE TimestampKinds :
       \E time_since_update \in IF updated_at = "iso" THEN 0 .. MaxAge ELSE {0} :
         LET seen == [r EXCEPT !.has_chunks = (child_chunks # {}),
                                  !.updated_at = updated_at,
                                  !.time_since_update = time_since_update]
             stuck(d) == [seen EXCEPT !.retry_mode = "True", !.diagnostic = d,
                                      !.pc = "mark_stuck"]
         IN  Step(r, IF count_raises THEN stuck("check failed")
                     ELSE IF seen.has_chunks THEN Responding(seen)
                     ELSE IF updated_at = "none" THEN stuck("no timestamp")
                     ELSE IF updated_at = "unparseable"
                     THEN stuck("timestamp check failed")
                     ELSE IF IsStale(time_since_update)
                     THEN stuck("no chunks created after")
                     ELSE Responding(seen))
    /\ UNCHANGED << book, access, parent_chunks, child_chunks, started, stubs, passes,
                    extractVars, answerVars >>

\* variant: the verdict is not written
StuckWrite_skipped(b, diagnostic) == b

\* the update of lines 152-155 (and 170-173, 179-182, 187-190)
StuckWrite(b, diagnostic) ==
    [b EXCEPT !.status = "error", !.processing_error = diagnostic]

\* lines 152-156, 170-174, 179-183, 187-191
U_MarkStuck(r) ==
    /\ r.pc = "mark_stuck"
    /\ book' = StuckWrite(book, r.diagnostic)
    /\ Step(r, [r EXCEPT !.book_status = "error", !.has_chunks = FALSE,
                              !.updated_at = "none", !.time_since_update = 0,
                              !.pc = "owner_check"])
    /\ UNCHANGED << access, parent_chunks, child_chunks, started, stubs, passes, extractVars, answerVars >>

\* lines 196-211: only the owner goes on to retry
U_OwnerCheck(r) ==
    /\ r.pc = "owner_check"
    /\ LET is_owner == \E a \in access : a.is_owner /\ a.user_id = r.user_id
       IN  IF is_owner
           THEN EnterPass(r, [r EXCEPT !.retry_mode = "True",
                                            !.diagnostic = "none",
                                            !.pc = "delete_children"])
           ELSE Step(r, Responding(r))
    /\ UNCHANGED << book, access, parent_chunks, child_chunks, started, stubs, passes,
                    extractVars, answerVars >>

\* .delete().eq("book_id", book_id): every row of the document
DeleteRows(rows) == {}

\* line 215 (upload_book) and line 723 (trigger_processing); a raise is caught
\* by the handler of lines 218 / 726, which skips the second delete
DeleteChildren(r) ==
    /\ r.pc = "delete_children"
    /\ \E raises \in BOOLEAN :
         IF raises
         THEN /\ Step(r, [r EXCEPT !.cleaned = FALSE, !.pc = "set_processing"])
              /\ UNCHANGED child_chunks
         ELSE /\ child_chunks' = DeleteRows(child_chunks)
              /\ Step(r, [r EXCEPT !.pc = "delete_parents"])
    /\ UNCHANGED << book, access, parent_chunks, started, stubs, passes, extractVars, answerVars >>

\* line 216 and line 724
DeleteParents(r) ==
    /\ r.pc = "delete_parents"
    /\ \E raises \in BOOLEAN :
         IF raises
         THEN /\ Step(r, [r EXCEPT !.cleaned = FALSE, !.pc = "set_processing"])
              /\ UNCHANGED parent_chunks
         ELSE /\ parent_chunks' = DeleteRows(parent_chunks)
              /\ Step(r, [r EXCEPT !.pc = "set_processing"])
    /\ UNCHANGED << book, access, child_chunks, started, stubs, passes, extractVars, answerVars >>

\* lines 222-225 and lines 731-735
SetProcessing(r) ==
    /\ r.pc = "set_processing"
    /\ book' = [book EXCEPT !.status = "processing", !.processing_error = "none"]
    /\ Step(r, [r EXCEPT !.pc = IF r.kind = "upload" THEN "update_book"
                                     ELSE "pb_start"])
    /\ UNCHANGED << access, parent_chunks, child_chunks, started, stubs, passes, extractVars, answerVars >>

\* lines 241-330 in retry mode: the file's text is extracted again (the same
\* file, so it succeeds again) and the record is updated
U_UpdateBook(r) ==
    /\ r.pc = "update_book"
    /\ book' = [book EXCEPT !.status = "processing", !.processing_error = "none"]
    /\ Step(r, [r EXCEPT !.pc = "pb_start"])
    /\ UNCHANGED << access, parent_chunks, child_chunks, started, stubs, passes, extractVars, answerVars >>

\* lines 240-311 for a hash that matched no record: the read of retry_mode
\* raises ("unbound"); past it, storage may fail (lines 253-258).  The
\* response of lines 410-417 carries what was raised.
U_NewFile(r) ==
    /\ r.pc = "new_file"
    /\ \E outcome \in {"unbound", "storage failed", "stored"} :
         IF outcome = "stored"
         THEN EnterPass(r, [r EXCEPT !.pc = "insert_book"])
         ELSE Step(r, [Responding(r) EXCEPT !.diagnostic = outcome])
    /\ UNCHANGED << book, access, parent_chunks, child_chunks, started, stubs, passes,
                    extractVars, answerVars >>

\* lines 331-348; the file hash identifies the record, a second insert for
\* it is refused by the store and the request ends (lines 410-417)
U_InsertBook(r) ==
    /\ r.pc = "insert_book"
    /\ IF book.exists
       THEN /\ Step(r, Responding(r))
            /\ UNCHANGED book
       ELSE /\ book' = [exists |-> TRUE, status |-> "processing",
                        processing_error |-> "none"]
            /\ Step(r, [r EXCEPT !.pc = "insert_access"])
    /\ UNCHANGED << access, parent_chunks, child_chunks, started, stubs, passes, extractVars, answerVars >>

\* lines 349-357
U_InsertAccess(r) ==
    /\ r.pc = "insert_access"
    /\ access' = access \cup {AccessRow(r.user_id, TRUE)}
    /\ Step(r, [r EXCEPT !.pc = "pb_start"])
    /\ UNCHANGED << book, parent_chunks, child_chunks, started, stubs, passes, extractVars, answerVars >>

\* ---- trigger_processing (books.py:652-769) ----

\* a request for the stored document arrives at a free worker
StartTrigger(u) ==
    /\ Arrives(u)
    /\ book.exists
    /\ started' = started + 1
    /\ req' = req \cup {[Idle EXCEPT !.kind = "trigger", !.user_id = u, !.pc = "access_check",
                               !.run = started + 1]}
    /\ UNCHANGED << book, access, parent_chunks, child_chunks, stubs, passes, extractVars, answerVars >>

\* lines 663-719: access check (a row of user_book_access, or the role
\* admin), then the record and its file are fetched
T_AccessCheck(r) ==
    /\ r.pc = "access_check"
    /\ \E role \in Roles :
         IF (\E a \in access : a.user_id = r.user_id) \/ role = "admin"
         THEN EnterPass(r, [r EXCEPT !.pc = "delete_children"])
         ELSE Step(r, Responding(r))
    /\ UNCHANGED << book, access, parent_chunks, child_chunks, started, stubs, passes,
                    extractVars, answerVars >>

\* ---- process_book (books.py:419-620), run inside the request ----

\* where the loops of lines 466-475 go after section number sec
AfterSection(r) ==
    IF r.sec >= Len(Worklist(stubs.tree))
    THEN Leaving(r, "pb_ready")
    ELSE [r EXCEPT !.sec = r.sec + 1, !.pc = "pb_parent"]

\* lines 451-466: the call raises TypeError (its arguments do not bind), or
\* extract_structure raises, or it returns the structure
Extracted(r) ==
    IF stubs.extract = "returned"
    THEN AfterSection([r EXCEPT !.sec = 0])
    ELSE Leaving(r, "pb_error")

\* lines 434-466: the status is written, then the structure is extracted
PB_Start(r) ==
    /\ r.pc = "pb_start"
    /\ book' = [book EXCEPT !.status = "processing"]
    /\ Step(r, Extracted(r))
    /\ UNCHANGED << access, parent_chunks, child_chunks, started, stubs, passes, extractVars, answerVars >>

\* what the embedding stub does for the paragraphs of section number sec
EmbeddingAnswer(sec) ==
    IF stubs.embed_at = sec THEN stubs.embed_how ELSE "exact"

\* lines 526-539: embeddings for the section's paragraphs, zipped with them
Embedded(r) ==
    LET child_texts == Worklist(stubs.tree)[r.sec].paragraphs
        answer == EmbeddingAnswer(r.sec)
        z == [r EXCEPT !.pairs = ZipLength(Len(child_texts),
                                           VectorCount(Len(child_texts), answer)),
                       !.idx = 0]
    IN  IF answer = "raised" THEN Leaving(r, "pb_error")
        ELSE IF z.pairs = 0 THEN AfterSection(z)
        ELSE [z EXCEPT !.pc = "pb_child"]

\* lines 475-539: the next section that has paragraphs becomes a parent row,
\* then the embeddings of its paragraphs are requested
PB_InsertParent(r) ==
    /\ r.pc = "pb_parent"
    /\ LET section == Worklist(stubs.tree)[r.sec]
           parent_id == [run |-> r.run, seq |-> r.sec]
       IN  /\ parent_chunks' = parent_chunks \cup
                  {ParentRow(parent_id, section.chapter_title, section.section_title,
                             JoinParagraphs(section.paragraphs))}
           /\ Step(r, Embedded([r EXCEPT !.parent_id = parent_id]))
    /\ UNCHANGED << book, access, child_chunks, started, stubs, passes, extractVars, answerVars >>

\* lines 539-549: one child row per pair, numbered by enumerate
PB_InsertChild(r) ==
    /\ r.pc = "pb_child"
    /\ LET child_texts == Worklist(stubs.tree)[r.sec].paragraphs
           inserted == [r EXCEPT !.idx = @ + 1]
       IN  /\ child_chunks' = child_chunks \cup
                  {ChildRow(r.parent_id, child_texts[r.idx + 1], r.idx)}
           /\ Step(r, IF inserted.idx >= inserted.pairs THEN AfterSection(inserted)
                       ELSE inserted)
    /\ UNCHANGED << book, access, parent_chunks, started, stubs, passes, extractVars, answerVars >>

\* lines 585-600
PB_Ready(r) ==
    /\ r.pc = "pb_ready"
    /\ book' = [book EXCEPT !.status = "ready"]
    /\ passes' = Remember(passes, PassSummary(r, "ready", parent_chunks, child_chunks))
    /\ Step(r, Responding([r EXCEPT !.ended = "ready"]))
    /\ UNCHANGED << access, parent_chunks, child_chunks, started, stubs, extractVars, answerVars >>

\* lines 602-620
PB_Error(r) ==
    /\ r.pc = "pb_error"
    /\ book' = [book EXCEPT !.status = "error", !.processing_error = "failed"]
    /\ passes' = Remember(passes, PassSummary(r, "error", parent_chunks, child_chunks))
    /\ Step(r, Responding([r EXCEPT !.ended = "error"]))
    /\ UNCHANGED << access, parent_chunks, child_chunks, started, stubs, extractVars, answerVars >>

\* the handler returns (lines 400-406, 764) or raises its HTTPException
Respond(r) ==
    /\ r.pc = "respond"
    /\ req' = req \ {r}
    /\ UNCHANGED << book, access, parent_chunks, child_chunks, started, stubs, passes,
                    extractVars, answerVars >>

NextBooks ==
    \/ \E u \in Users : StartUpload(u)
    \/ \E u \in Users : StartTrigger(u)
    \/ \E r \in req : U_Lookup(r)
    \/ \E r \in req : U_StuckCheck(r)
    \/ \E r \in req : U_MarkStuck(r)
    \/ \E r \in req : U_OwnerCheck(r)
    \/ \E r \in req : DeleteChildren(r)
    \/ \E r \in req : DeleteParents(r)
    \/ \E r \in req : SetProcessing(r)
    \/ \E r \in req : U_UpdateBook(r)
    \/ \E r \in req : U_NewFile(r)
    \/ \E r \in req : U_InsertBook(r)
    \/ \E r \in req : U_InsertAccess(r)
    \/ \E r \in req : T_AccessCheck(r)
    \/ \E r \in req : PB_Start(r)
    \/ \E r \in req : PB_InsertParent(r)
    \/ \E r \in req : PB_InsertChild(r)
    \/ \E r \in req : PB_Ready(r)
    \/ \E r \in req : PB_Error(r)
    \/ \E r \in req : Respond(r)

\* the first upload of the file
FirstUpload ==
    /\ started = 0
    /\ StartUpload("u1")

NextIngest ==
    \/ FirstUpload
    \/ \E r \in req : U_Lookup(r)
    \/ \E r \in req : U_NewFile(r)
    \/ \E r \in req : U_InsertBook(r)
    \/ \E r \in req : U_InsertAccess(r)
    \/ \E r \in req : PB_Start(r)
    \/ \E r \in req : PB_InsertParent(r)
    \/ \E r \in req : PB_InsertChild(r)
    \/ \E r \in req : PB_Ready(r)
    \/ \E r \in req : PB_Error(r)
    \/ \E r \in req : Respond(r)

\* the steps of the two handlers; process_book's own steps are left out, an
\* oracle or embedding call of it may take any time
HandlerStep ==
    \E r \in req :
        \/ U_Lookup(r) \/ U_StuckCheck(r) \/ U_MarkStuck(r) \/ U_OwnerCheck(r)
        \/ DeleteChildren(r) \/ DeleteParents(r) \/ SetProcessing(r)
        \/ U_UpdateBook(r) \/ U_NewFile(r) \/ U_InsertBook(r) \/ U_InsertAccess(r)
        \/ T_AccessCheck(r) \/ Respond(r)


----------------------------------------------------------------------------
(***************************************************************************)
(* Part III  routers/chat.py: answering a query.  A message is a sequence  *)
(* of pieces (words and word parts); the text of the message is their      *)
(* concatenation, a keyword is a sequence of pieces, and `keyword in       *)
(* message` is the occurrence of the keyword's pieces side by side.        *)
(***************************************************************************)

\* longest message enumerated, in pieces
MaxPieces == 3

Pieces == {"why", "Why", "compare", "how ", "do", "es", " i", "plan", "step", "s",
           "summary", "x"}

\* str.lower(), piece by piece
LowerPiece(piece) == IF piece = "Why" THEN "why" ELSE piece

Lower(m) == [i \in 1 .. Len(m) |-> LowerPiece(m[i])]

\* keyword in m
Contains(m, keyword) ==
    \E i \in 0 .. Len(m) - Len(keyword) : Slice(m, i, i + Len(keyword)) = keyword

\* any(keyword in m for keyword in keywords)
AnyKeyword(m, keywords) == \E keyword \in keywords : Contains(m, keyword)

\* entries "why", "compare", "how does" of the list of lines 238-244
reasoning_intent_keywords == { << "why" >>, << "compare" >>, << "how ", "do", "es" >> }

\* entries "plan", "how do", "steps" of the list of lines 249-254
action_planner_keywords == { << "plan" >>, << "how ", "do" >>, << "step", "s" >> }

\* entries "how do i", "step", "how does" of the list of lines 263-268
follow_up_keywords == { << "how ", "do", " i" >>, << "step" >>, << "how ", "do", "es" >> }

\* entry "summary" of the list of lines 283-287
global_intent_keywords == { << "summary" >> }

\* variant: a follow-up keyword counts whether or not an artifact exists
IsFollowUp_always(user_message_lower, has_artifact) ==
    AnyKeyword(user_message_lower, follow_up_keywords)

\* lines 270-273
IsFollowUp(user_message_lower, has_artifact) ==
    has_artifact /\ AnyKeyword(user_message_lower, follow_up_keywords)

\* lines 235-289: the three flags, computed in the order of the code
Classified(m, has_artifact) ==
    LET user_message_lower == Lower(m)
        reasoning == AnyKeyword(user_message_lower, reasoning_intent_keywords)
        follow_up == IsFollowUp(user_message_lower, has_artifact)
        action_planner == /\ AnyKeyword(user_message_lower, action_planner_keywords)
                          /\ ~ reasoning
                          /\ ~ follow_up
        global == /\ AnyKeyword(user_message_lower, global_intent_keywords)
                  /\ ~ reasoning
                  /\ ~ action_planner
    IN  [is_reasoning_query |-> reasoning,
         is_action_planner_query |-> action_planner,
         is_global_query |-> global]

RECURSIVE SeqsUpTo(_, _)
\* the sequences over S of length at most n
SeqsUpTo(S, n) ==
    IF n = 0 THEN { << >> }
    ELSE LET shorter == SeqsUpTo(S, n - 1)
         IN  shorter \cup { Append(m, x) : m \in shorter, x \in S }

Messages == SeqsUpTo(Pieces, MaxPieces)

\* ---- the indexes and the store a query is answered from ----

\* longest list book_ids enumerated
MaxScope == 2

Books == 1 .. MaxScope

\* similarity scores and thresholds are in hundredths
\* match_threshold of Path A (chat.py:1045, 2360)
SpecificThreshold == 70
\* match_threshold of Path A for a global query (chat.py:1045, 2360)
GlobalThreshold == 50
\* match_threshold of Path C and Path D (chat.py:492, 791, 818)
ReasoningThreshold == 60
\* the lower threshold of the second semantic search (chat.py:1087)
RelaxedThreshold == 30

\* an index stub whose call raises
Unavailable == 0 - 1

\* what a book of the scope holds in child_chunks: nothing, rows without an
\* embedding, rows with one
StoreKinds == {"none", "plain", "embedded"}

\* the best similarity a stub index finds for the query, or Unavailable
IndexStubs ==
    [action_metadata : {Unavailable, 0, 65},
     hybrid : {Unavailable, 0, 65, 80},
     vector : {Unavailable, 0, 40, 80}]

\* book_ids as a sequence
Scope(n) == [b \in 1 .. n |-> b]

\* one Child Unit per book, named by its book: the units of books bs whose
\* rows have the kinds ks
UnitsOf(st, bs, ks) == SelectSeq(bs, LAMBDA b : st[b] \in ks)

NoCall == [raised |-> FALSE, data |-> << >>]

\* supabase.rpc(name, {match_threshold, book_ids}).execute() on the stubs
Rpc(ix, st, name, match_threshold, bs) ==
    IF ix[name] = Unavailable THEN [raised |-> TRUE, data |-> << >>]
    ELSE [raised |-> FALSE,
          data |-> IF ix[name] > match_threshold THEN UnitsOf(st, bs, {"embedded"})
                   ELSE << >>]

\* an entry of the call log: which path called which layer, and whether
\* the call returned rows
Called(path, layer, answer) ==
    [path |-> path, layer |-> layer, found |-> answer.data # << >>]

\* the searches of one path: chunks found, calls made, and whether an
\* exception left the path
Searched(chunks_, calls_, raised) == [chunks |-> chunks_, calls |-> calls_, raised |-> raised]

\* ---- the searches of the four paths ----

\* chat, lines 1048-1163: combined search, semantic search when it raises,
\* the semantic search again at 0.3 when nothing was found, unranked
\* retrieval of embedded rows when the semantic search raised, and unranked
\* retrieval of any rows when there is still nothing
PathA_chat(ix, st, bs, is_global) ==
    LET match_threshold == IF is_global THEN GlobalThreshold ELSE SpecificThreshold
        h == Rpc(ix, st, "hybrid", match_threshold, bs)
        v == Rpc(ix, st, "vector", match_threshold, bs)
        x == Rpc(ix, st, "vector", RelaxedThreshold, bs)
        inner == IF ~ h.raised
                 THEN Searched(h.data, << Called("A", "combined", h) >>, FALSE)
                 ELSE Searched(v.data, << Called("A", "combined", h),
                                          Called("A", "semantic", v) >>, v.raised)
        relaxed == IF ~ inner.raised /\ inner.chunks = << >>
                      /\ match_threshold > RelaxedThreshold
                   THEN Searched(IF x.raised THEN inner.chunks ELSE x.data,
                                 Append(inner.calls, Called("A", "relaxed", x)), FALSE)
                   ELSE inner
        embedded == [raised |-> FALSE, data |-> UnitsOf(st, bs, {"embedded"})]
        tried == IF inner.raised
                 THEN Searched(embedded.data,
                               Append(inner.calls, Called("A", "unranked", embedded)), FALSE)
                 ELSE relaxed
        any == [raised |-> FALSE, data |-> UnitsOf(st, bs, {"plain", "embedded"})]
    IN  IF tried.chunks = << >>
        THEN Searched(any.data, Append(tried.calls, Called("A", "unranked", any)), FALSE)
        ELSE tried

\* PathA_stream without the test of line 2384: unranked retrieval runs
\* whatever the combined search returned
PathA_stream_always(ix, st, bs, is_global) ==
    LET match_threshold == IF is_global THEN GlobalThreshold ELSE SpecificThreshold
        h == Rpc(ix, st, "hybrid", match_threshold, bs)
        rows == UnitsOf(st, bs, {"plain", "embedded"})
        any == [raised |-> FALSE,
                data |-> IF rows = << >> THEN << >> ELSE << Head(rows) >>]
    IN  Searched(IF h.data # << >> THEN h.data ELSE any.data,
                 << Called("A", "combined", h), Called("A", "unranked", any) >>, FALSE)

\* stream_chat_response, lines 2365-2417: combined search, then unranked
\* retrieval of any rows, which stops at the first book that has rows
PathA_stream(ix, st, bs, is_global) ==
    LET match_threshold == IF is_global THEN GlobalThreshold ELSE SpecificThreshold
        h == Rpc(ix, st, "hybrid", match_threshold, bs)
        rows == UnitsOf(st, bs, {"plain", "embedded"})
        any == [raised |-> FALSE,
                data |-> IF rows = << >> THEN << >> ELSE << Head(rows) >>]
    IN  IF h.data # << >>
        THEN Searched(h.data, << Called("A", "combined", h) >>, FALSE)
        ELSE Searched(any.data, << Called("A", "combined", h),
                                   Called("A", "unranked", any) >>, FALSE)

\* one book of the map-reduce loop (chat lines 746-777, stream lines 2110-2126)
CompareBook(ix, st, entry, b) ==
    LET h == Rpc(ix, st, "hybrid", ReasoningThreshold, << b >>)
        v == Rpc(ix, st, "vector", ReasoningThreshold, << b >>)
    IN  IF h.raised /\ entry = "chat"
        THEN Searched(v.data, << Called("C", "combined", h),
                                 Called("C", "semantic", v) >>, FALSE)
        ELSE Searched(h.data, << Called("C", "combined", h) >>, FALSE)

RECURSIVE CompareSearch(_, _, _, _)
\* the map-reduce loop over book_ids and the concatenation of its results
CompareSearch(ix, st, entry, bs) ==
    IF bs = << >> THEN Searched(<< >>, << >>, FALSE)
    ELSE LET one == CompareBook(ix, st, entry, Head(bs))
             rest == CompareSearch(ix, st, entry, Tail(bs))
         IN  Searched(one.chunks \o rest.chunks, one.calls \o rest.calls, FALSE)

\* chat lines 731-860, stream lines 2098-2180.  In chat the semantic search
\* follows a combined search that raised; for several books without a
\* compare keyword it is called outside any try block
PathC(ix, st, entry, bs, has_book_id, is_compare_query) ==
    LET h == Rpc(ix, st, "hybrid", ReasoningThreshold, bs)
        v == Rpc(ix, st, "vector", ReasoningThreshold, bs)
        several == ~ has_book_id /\ Len(bs) > 1
    IN  IF several /\ is_compare_query THEN CompareSearch(ix, st, entry, bs)
        ELSE IF ~ h.raised \/ entry = "stream"
        THEN Searched(h.data, << Called("C", "combined", h) >>, FALSE)
        ELSE Searched(v.data, << Called("C", "combined", h),
                                 Called("C", "semantic", v) >>,
                      v.raised /\ several)

\* chat lines 494-538, stream lines 1887-1931: the search by action
\* metadata, then combined, then semantic, each when the one before raised;
\* when all raise, chat goes on with no chunks and the stream ends
PathD(ix, st, entry, bs) ==
    LET m == Rpc(ix, st, "action_metadata", ReasoningThreshold, bs)
        h == Rpc(ix, st, "hybrid", ReasoningThreshold, bs)
        v == Rpc(ix, st, "vector", ReasoningThreshold, bs)
        cm == Called("D", "action_metadata", m)
        ch == Called("D", "combined", h)
        cv == Called("D", "semantic", v)
    IN  IF ~ m.raised THEN Searched(m.data, << cm >>, FALSE)
        ELSE IF ~ h.raised THEN Searched(h.data, << cm, ch >>, FALSE)
        ELSE Searched(v.data, << cm, ch, cv >>, v.raised /\ entry = "stream")

\* ---- chat (lines 142-1371) and stream_chat_response (lines 1732-2568) ----

\* entry "compare" of the list of lines 734 and 2100
compare_keywords == { << "compare" >> }

NoFlags ==
    [is_reasoning_query |-> FALSE, is_action_planner_query |-> FALSE,
     is_global_query |-> FALSE]

NoReply == [kind |-> "none", path |-> "none", sources |-> 0]

\* the reply, or the event that ends the stream: an answer of the
\* generation oracle, the fixed text that says no content was found, or an
\* error (an exception that leaves the handler, an error event)
Reply(kind, path, n) == [kind |-> kind, path |-> path, sources |-> n]

\* a call of the generation oracle with a context of so many units
Generation(path, units) == [path |-> path, units |-> Len(units)]

book_ids == Scope(query.n_books)

\* lines 235-289 (chat) and 2696-2749 (chat_stream)
Q_Classify ==
    /\ qpc = "classify"
    /\ flags' = Classified(message, has_existing_artifact)
    /\ qpc' = "path_b"
    /\ UNCHANGED << message, has_existing_artifact, query, index, store, calls,
                    generations, reply, extractVars, bookVars, contextVars, pureVars >>

\* Path B, chat lines 292-477: the book is looked up by chat_message.book_id;
\* its summary, or else the titles of its parent rows, go to the oracle; with
\* neither, the query goes on as a query that is not global.
\* stream lines 1790-1877: only with chat_message.book_id set; without a
\* summary the query goes on, still global
Q_PathB ==
    /\ qpc = "path_b"
    /\ LET taken == /\ flags.is_global_query
                    /\ query.n_books = 1
                    /\ (query.entry = "stream" => query.has_book_id)
           has_toc == query.entry = "chat" /\ store.children[1] # "none"
       IN  IF ~ taken
           THEN /\ qpc' = "path_d"
                /\ UNCHANGED << flags, reply >>
           ELSE IF ~ query.has_book_id
           THEN /\ qpc' = "done"
                /\ reply' = Reply("error", "B", 0)
                /\ UNCHANGED flags
           ELSE IF store.global_summary \/ has_toc
           THEN /\ qpc' = "done"
                /\ reply' = Reply("answer", "B", 1)
                /\ UNCHANGED flags
           ELSE /\ qpc' = "path_d"
                /\ flags' = IF query.entry = "chat"
                            THEN [flags EXCEPT !.is_global_query = FALSE]
                            ELSE flags
                /\ UNCHANGED reply
    /\ UNCHANGED << message, has_existing_artifact, query, index, store, calls,
                    generations, extractVars, bookVars, contextVars, pureVars >>

\* what follows a search of Path D that found chunks: in chat the call of
\* get_parent_context_for_chunks is passed (supabase, chunks) for
\* (chunks, supabase) and raises (line 541); past it, and in the stream,
\* the oracle's artifact is valid or not (lines 663-718, 2037-2089)
ArtifactOutcomes(entry) ==
    IF entry = "chat" THEN {"TypeError", "valid", "invalid"} ELSE {"valid", "invalid"}

\* Path D, chat lines 480-718, stream lines 1879-2089
Q_PathD ==
    /\ qpc = "path_d"
    /\ IF ~ flags.is_action_planner_query
       THEN /\ qpc' = "path_c"
            /\ UNCHANGED << flags, calls, generations, reply >>
       ELSE LET found == PathD(index, store.children, query.entry, book_ids)
                fall == [flags EXCEPT !.is_action_planner_query = FALSE]
            IN  /\ calls' = calls \o found.calls
                /\ IF found.raised
                   THEN /\ qpc' = "done"
                        /\ reply' = Reply("error", "D", 0)
                        /\ UNCHANGED << flags, generations >>
                   ELSE IF found.chunks = << >>
                   THEN /\ qpc' = "path_c"
                        /\ flags' = fall
                        /\ UNCHANGED << generations, reply >>
                   ELSE \E artifact \in ArtifactOutcomes(query.entry) :
                          IF artifact = "TypeError"
                          THEN /\ qpc' = "done"
                               /\ reply' = Reply("error", "D", 0)
                               /\ UNCHANGED << flags, generations >>
                          ELSE /\ generations' =
                                      Append(generations, Generation("D", found.chunks))
                               /\ IF artifact = "valid"
                                  THEN /\ qpc' = "done"
                                       /\ reply' = Reply("answer", "D", Len(found.chunks))
                                       /\ UNCHANGED flags
                                  ELSE /\ qpc' = "path_c"
                                       /\ flags' = fall
                                       /\ UNCHANGED reply
    /\ UNCHANGED << message, has_existing_artifact, query, index, store,
                    extractVars, bookVars, contextVars, pureVars >>

\* Path C, chat lines 723-1033, stream lines 2092-2354: with no chunks chat
\* goes on to Path A, the stream ends with "No relevant chunks found"
Q_PathC ==
    /\ qpc = "path_c"
    /\ IF ~ flags.is_reasoning_query
       THEN /\ qpc' = "path_a"
            /\ UNCHANGED << flags, calls, generations, reply >>
       ELSE LET found == PathC(index, store.children, query.entry, book_ids,
                               query.has_book_id,
                               AnyKeyword(Lower(message), compare_keywords))
            IN  /\ calls' = calls \o found.calls
                /\ IF found.raised
                   THEN /\ qpc' = "done"
                        /\ reply' = Reply("error", "C", 0)
                        /\ UNCHANGED << flags, generations >>
                   ELSE IF found.chunks # << >>
                   THEN /\ qpc' = "done"
                        /\ generations' = Append(generations, Generation("C", found.chunks))
                        /\ reply' = Reply("answer", "C", Len(found.chunks))
                        /\ UNCHANGED flags
                   ELSE IF query.entry = "chat"
                   THEN /\ qpc' = "path_a"
                        /\ flags' = [flags EXCEPT !.is_reasoning_query = FALSE]
                        /\ UNCHANGED << generations, reply >>
                   ELSE /\ qpc' = "done"
                        /\ reply' = Reply("no_content", "C", 0)
                        /\ UNCHANGED << flags, generations >>
    /\ UNCHANGED << message, has_existing_artifact, query, index, store,
                    extractVars, bookVars, contextVars, pureVars >>

\* the test of line 1037; the stream has none (line 2357)
EntersPathA ==
    \/ query.entry = "stream"
    \/ /\ ~ flags.is_global_query \/ ~ query.has_book_id \/ query.n_books > 1
       /\ ~ flags.is_reasoning_query

\* Path A, chat lines 1037-1371, stream lines 2357-2568: with no chunks the
\* fixed answer with no sources (lines 1166-1207), or the closing event of
\* lines 2415-2417; else the oracle answers from the chunks
Q_PathA ==
    /\ qpc = "path_a"
    /\ qpc' = "done"
    /\ IF ~ EntersPathA
       THEN /\ reply' = Reply("error", "A", 0)
            /\ UNCHANGED << calls, generations >>
       ELSE LET found == IF query.entry = "chat"
                         THEN PathA_chat(index, store.children, book_ids,
                                         flags.is_global_query)
                         ELSE PathA_stream(index, store.children, book_ids,
                                           flags.is_global_query)
            IN  /\ calls' = calls \o found.calls
                /\ IF found.chunks = << >>
                   THEN /\ reply' = Reply("no_content", "A", 0)
                        /\ UNCHANGED generations
                   ELSE /\ generations' = Append(generations, Generation("A", found.chunks))
                        /\ reply' = Reply("answer", "A", Len(found.chunks))
    /\ UNCHANGED << message, has_existing_artifact, query, flags, index, store,
                    extractVars, bookVars, contextVars, pureVars >>

NextClassify == Q_Classify

NextRetrieve ==
    \/ Q_Classify
    \/ Q_PathB
    \/ Q_PathD
    \/ Q_PathC
    \/ Q_PathA

NoStore == [children |-> [b \in Books |-> "none"], global_summary |-> FALSE]

NoIndex == [action_metadata |-> 0, hybrid |-> 0, vector |-> 0]

\* a query of one book through chat, before it is classified
OneQuery ==
    /\ query = [entry |-> "chat", n_books |-> 1, has_book_id |-> TRUE]
    /\ flags = NoFlags
    /\ index = NoIndex
    /\ store = NoStore
    /\ qpc = "classify"
    /\ calls = << >>
    /\ generations = << >>
    /\ reply = NoReply

\* every message, with and without an artifact in the history
ClassifyStart ==
    /\ message \in Messages
    /\ has_existing_artifact \in BOOLEAN
    /\ OneQuery

\* one message of each kind: reasoning, compare, action, global, specific
RetrievalMessages ==
    { << "Why" >>, << "compare" >>, << "plan" >>, << "summary" >>, << "x" >> }

\* the index finds what it is asked for among the embedded rows
Indexed(ix, st, n) ==
    (ix.action_metadata > 0 \/ ix.hybrid > 0 \/ ix.vector > 0)
        => \E b \in 1 .. n : st.children[b] = "embedded"

\* every entry point, scope, index stub and store
RetrieveStart ==
    /\ message \in RetrievalMessages
    /\ has_existing_artifact = FALSE
    /\ query \in [entry : {"chat", "stream"}, n_books : 1 .. MaxScope,
                  has_book_id : BOOLEAN]
    /\ flags = NoFlags
    /\ index \in IndexStubs
    /\ store \in [children : [Books -> StoreKinds], global_summary : BOOLEAN]
    /\ \A b \in Books : b > query.n_books => store.children[b] = "none"
    /\ Indexed(index, store, query.n_books)
    /\ qpc = "classify"
    /\ calls = << >>
    /\ generations = << >>
    /\ reply = NoReply

\* ---- chunk_utils.py ----

\* identifiers of Child RetrievedUnits, as the store writes them (str(uuid4())),
\* and two of other forms
ChunkIds ==
    { "3f2b8c1e-7a4d-4e9b-9c6a-1d2e3f4a5b6c",
      "a1b2c3d4-e5f6-4789-8abc-def012345678",
      "00000000-0000-0000-0000-000000000001",
      "7",
      "A1B2C3D4-E5F6-4789-8ABC-DEF012345678" }

\* hashlib.md5(chunk_uuid.encode()).digest(): the 16 bytes of the digest
md5(chunk_uuid) ==
    CASE chunk_uuid = "3f2b8c1e-7a4d-4e9b-9c6a-1d2e3f4a5b6c" ->
         << 252, 32, 206, 59, 230, 3, 142, 250, 253, 177, 244, 21, 178, 23, 35, 12 >>
      [] chunk_uuid = "a1b2c3d4-e5f6-4789-8abc-def012345678" ->
         << 223, 102, 140, 5, 84, 55, 155, 116, 221, 79, 44, 99, 35, 40, 55, 54 >>
      [] chunk_uuid = "00000000-0000-0000-0000-000000000001" ->
         << 201, 101, 137, 238, 251, 8, 40, 192, 113, 121, 9, 91, 205, 12, 239, 95 >>
      [] chunk_uuid = "7" ->
         << 143, 20, 228, 95, 206, 234, 22, 122, 90, 54, 222, 221, 75, 234, 37, 67 >>
      [] chunk_uuid = "A1B2C3D4-E5F6-4789-8ABC-DEF012345678" ->
         << 158, 140, 114, 198, 234, 25, 173, 129, 112, 73, 9, 241, 94, 65, 59, 130 >>

HexDigits ==
    << "0", "1", "2", "3", "4", "5", "6", "7", "8", "9", "a", "b", "c", "d", "e", "f" >>

UpperHexDigits ==
    << "0", "1", "2", "3", "4", "5", "6", "7", "8", "9", "A", "B", "C", "D", "E", "F" >>

\* a digest in upper-case digits
hexdigest_upper(digest) ==
    [k \in 1 .. 2 * Len(digest) |->
        LET byte == digest[(k + 1) \div 2]
        IN  UpperHexDigits[(IF k % 2 = 1 THEN byte \div 16 ELSE byte % 16) + 1]]

\* hash_obj.hexdigest(): two lower-case digits per byte, high nibble first
hexdigest(digest) ==
    [k \in 1 .. 2 * Len(digest) |->
        LET byte == digest[(k + 1) \div 2]
        IN  HexDigits[(IF k % 2 = 1 THEN byte \div 16 ELSE byte % 16) + 1]]

\* chunk_utils.py:8-22; the token is a sequence of characters
generate_chunk_id(chunk_uuid) ==
    LET short_id == SubSeq(hexdigest(md5(chunk_uuid)), 1, 8)
    IN  << "#", "c", "h", "k", "_" >> \o short_id

MaxMint == 3

\* a call of generate_chunk_id, of any request
Mint ==
    /\ Len(minted) < MaxMint
    /\ \E chunk_uuid \in ChunkIds :
         minted' = Append(minted, [chunk_uuid |-> chunk_uuid,
                                   token |-> generate_chunk_id(chunk_uuid)])
    /\ UNCHANGED << chunks, parent_rows, apc, seen_parent_ids, enhanced_chunks, fetches,
                    context_parts, sources, source_set, sources_list,
                    extractVars, bookVars, chatVars, pureVars >>

ParentIds == {"p1", "p2"}

\* rows of parent_chunks: full_text, chapter_title, section_title
FetchedParent(parent_id) ==
    IF parent_id = "p1"
    THEN [full_text |-> "P1", chapter_title |-> "ch1", section_title |-> "s1"]
    ELSE [full_text |-> "P2", chapter_title |-> "ch2", section_title |-> "ch2"]

\* what .eq("id", parent_id).single().execute() does: the row, no data, or
\* an exception
FetchOutcomes == {"found", "missing", "raises"}

Unit(id, text_, parent_id, parent_text, book_title, chapter_title, section_title) ==
    [id |-> id, text |-> text_, parent_id |-> parent_id, parent_text |-> parent_text,
     book_title |-> book_title, chapter_title |-> chapter_title,
     section_title |-> section_title]

\* rows a search returns.  "" stands for a field that is None or empty:
\* two units of one parent and one section; a unit of a section titled as
\* its chapter; a unit with no parent and no titles; a unit that comes with
\* its parent_text and no section title
RetrievedUnits ==
    { Unit("3f2b8c1e-7a4d-4e9b-9c6a-1d2e3f4a5b6c", "c1", "p1", "", "B1", "ch1", "s1"),
      Unit("a1b2c3d4-e5f6-4789-8abc-def012345678", "c2", "p1", "", "B1", "ch1", "s1"),
      Unit("00000000-0000-0000-0000-000000000001", "c3", "p2", "", "B1", "ch2", "ch2"),
      Unit("7", "c4", "", "", "B2", "", ""),
      Unit("A1B2C3D4-E5F6-4789-8ABC-DEF012345678", "c5", "p2", "P2", "B1", "ch2", "") }

MaxChunks == 3

\* the body of the loop of lines 39-88 for one chunk: the enhanced chunk,
\* whether a request was sent, and the parents seen after it
Enhance(chunk, seen, rows) ==
    LET own == [chunk |-> chunk, context_text |-> chunk.text,
                chapter_title |-> chunk.chapter_title,
                section_title |-> chunk.section_title]
    IN  IF chunk.parent_text # ""
        THEN [enhanced |-> [own EXCEPT !.context_text = chunk.parent_text],
              fetched |-> FALSE, seen |-> seen]
        ELSE IF chunk.parent_id # "" /\ chunk.parent_id \notin seen
        THEN IF rows[chunk.parent_id] = "found"
             THEN LET parent == FetchedParent(chunk.parent_id)
                  IN  [enhanced |-> [own EXCEPT !.context_text = parent.full_text,
                                                !.chapter_title = parent.chapter_title,
                                                !.section_title = parent.section_title],
                       fetched |-> TRUE, seen |-> seen \cup {chunk.parent_id}]
             ELSE [enhanced |-> own, fetched |-> TRUE, seen |-> seen]
        ELSE [enhanced |-> own, fetched |-> FALSE, seen |-> seen]

\* one iteration of the loop of get_parent_context_for_chunks
GPC_Iterate ==
    /\ apc = "enhance"
    /\ Len(enhanced_chunks) < Len(chunks)
    /\ LET step == Enhance(chunks[Len(enhanced_chunks) + 1], seen_parent_ids, parent_rows)
       IN  /\ enhanced_chunks' = Append(enhanced_chunks, step.enhanced)
           /\ seen_parent_ids' = step.seen
           /\ fetches' = fetches + (IF step.fetched THEN 1 ELSE 0)
    /\ UNCHANGED << chunks, parent_rows, apc, context_parts, sources, source_set,
                    sources_list, minted, extractVars, bookVars, chatVars, pureVars >>

\* line 90
GPC_Return ==
    /\ apc = "enhance"
    /\ Len(enhanced_chunks) = Len(chunks)
    /\ apc' = "cite"
    /\ UNCHANGED << chunks, parent_rows, seen_parent_ids, enhanced_chunks, fetches,
                    context_parts, sources, source_set, sources_list, minted,
                    extractVars, bookVars, chatVars, pureVars >>

\* ---- chat.py, lines 1219-1261 (and 871-906, 2189-2221, 2424-2456) ----

\* ", ".join(source_parts), as the sequence of its parts (lines 1241-1247)
SourceLabel(book_title, chapter, section) ==
    << book_title >>
    \o (IF chapter # "" THEN << chapter >> ELSE << >>)
    \o (IF section # "" /\ section # chapter THEN << section >> ELSE << >>)

\* f"{book_title}|{chapter}|{section}" (line 1248)
SourceKey(book_title, chapter, section) == << book_title, chapter, section >>

\* one iteration of the loop of lines 1224-1256
CiteChunk ==
    /\ apc = "cite"
    /\ Len(context_parts) < Len(enhanced_chunks)
    /\ LET e == enhanced_chunks[Len(context_parts) + 1]
           persistent_id == generate_chunk_id(e.chunk.id)
           source == SourceLabel(e.chunk.book_title, e.chapter_title, e.section_title)
           source_key == SourceKey(e.chunk.book_title, e.chapter_title, e.section_title)
       IN  /\ context_parts' = Append(context_parts, << persistent_id, e.context_text >>)
           /\ IF source_key \notin source_set
              THEN /\ sources' = Append(sources, source)
                   /\ source_set' = source_set \cup {source_key}
              ELSE UNCHANGED << sources, source_set >>
    /\ UNCHANGED << chunks, parent_rows, apc, seen_parent_ids, enhanced_chunks, fetches,
                    sources_list, minted, extractVars, bookVars, chatVars, pureVars >>

Range(seq) == { seq[k] : k \in 1 .. Len(seq) }

\* the lists that hold each member of a set once
Orderings(S) ==
    { f \in [1 .. Cardinality(S) -> S] : \A a, b \in 1 .. Cardinality(S) : f[a] = f[b] => a = b }

\* list(set(sources)), line 1261: a set of strings is iterated in an order
\* that depends on the hash seed of the process
ListOfSet(S) == Orderings(S)

\* line 1261
SourcesList ==
    /\ apc = "cite"
    /\ Len(context_parts) = Len(enhanced_chunks)
    /\ sources_list' \in ListOfSet(Range(sources))
    /\ apc' = "done"
    /\ UNCHANGED << chunks, parent_rows, seen_parent_ids, enhanced_chunks, fetches,
                    context_parts, sources, source_set, minted,
                    extractVars, bookVars, chatVars, pureVars >>

NextContext ==
    \/ GPC_Iterate
    \/ GPC_Return
    \/ CiteChunk
    \/ SourcesList

NextCite == Mint

\* the sequences over S of a to b members
SeqsFromTo(S, a, b) == { q \in SeqsUpTo(S, b) : Len(q) >= a }

\* what a search returns: one to MaxChunks rows, no row twice
SearchResults ==
    { q \in SeqsFromTo(RetrievedUnits, 1, MaxChunks) :
        \A a, b \in 1 .. Len(q) : q[a] = q[b] => a = b }

\* a search returned its rows; the store answers the fetch of each parent
\* in one of three ways
ContextStart ==
    /\ chunks \in SearchResults
    /\ parent_rows \in [ParentIds -> FetchOutcomes]
    /\ apc = "enhance"
    /\ seen_parent_ids = {}
    /\ enhanced_chunks = << >>
    /\ fetches = 0
    /\ context_parts = << >>
    /\ sources = << >>
    /\ source_set = {}
    /\ sources_list = << >>
    /\ minted = << >>

ContextOff ==
    /\ chunks = << >>
    /\ parent_rows = [parent_id \in ParentIds |-> "missing"]
    /\ apc = "off"
    /\ seen_parent_ids = {}
    /\ enhanced_chunks = << >>
    /\ fetches = 0
    /\ context_parts = << >>
    /\ sources = << >>
    /\ source_set = {}
    /\ sources_list = << >>
    /\ minted = << >>

\* ---- get_safe_chunk_boundary called on its own ----

NoReturn == [kind |-> "none"]

\* target sizes: the smallest, and sizes whose last 10% is one, two, three
\* and four characters
SliceTargets == {1, 2, 3, 11, 30, 40}

SliceCursors == {0, 1, 2}

\* how far before the raw end of the window newlines are placed
NewlineReach == 5

\* lengths of the text about the raw end of the window
SliceLengths(start_pos, target_size) ==
    { n \in { start_pos + target_size - 1, start_pos + target_size,
              start_pos + target_size + 1, start_pos + target_size + 4 } :
        n > start_pos }

\* every layout of newlines about the raw end of the window
SliceNewlines(start_pos, target_size, n) ==
    SUBSET { i \in (start_pos + target_size - NewlineReach) .. (start_pos + target_size + 1) :
               i >= 0 /\ i < n }

\* the calls for one cursor and one target size
SliceCallsOf(c, t) ==
    UNION { { [text |-> MkText(n, nl), start_pos |-> c, target_size |-> t] :
                nl \in SliceNewlines(c, t, n) } : n \in SliceLengths(c, t) }

\* a text of 100,000 characters with one paragraph boundary at 39,500,
\* sliced from 0 with chunk_size = 40000 (line 239)
ExampleCall ==
    [text |-> MkText(100000, {39500, 39501}), start_pos |-> 0, target_size |-> 40000]

SliceCalls ==
    UNION { SliceCallsOf(q[1], q[2]) : q \in SliceCursors \X SliceTargets }
    \cup { ExampleCall }

SliceStart ==
    /\ fn_in \in SliceCalls
    /\ fn_out = NoReturn

\* end_pos, chunk_text = get_safe_chunk_boundary(text, start_pos, target_size, len(text))
Call_get_safe_chunk_boundary ==
    /\ fn_out = NoReturn
    /\ LET b == get_safe_chunk_boundary(fn_in.text, fn_in.start_pos, fn_in.target_size,
                                        Len(fn_in.text))
       IN  fn_out' = [kind |-> "returned", end_pos |-> b.end_pos, chunk_text |-> b.chunk_text]
    /\ UNCHANGED << fn_in, extractVars, bookVars, chatVars, contextVars >>

NextSlice == Call_get_safe_chunk_boundary

PureOff ==
    /\ fn_in = << >>
    /\ fn_out = NoReturn

\* ---- repair_truncated_json (structure_extractor.py:92-147) ----

\* json_str.count(char)
Count(json_str, char) == Cardinality({ i \in 1 .. Len(json_str) : json_str[i] = char })

\* lines 117-128: the body of the loop over the characters
ScanChar(q, char) ==
    IF q.escape_next THEN [q EXCEPT !.escape_next = FALSE]
    ELSE IF char = "\\" THEN [q EXCEPT !.escape_next = TRUE]
    ELSE IF char = "\"" THEN [q EXCEPT !.in_string = ~ q.in_string]
    ELSE q

RECURSIVE Scan(_, _, _, _)
\* the loop over characters lo .. hi, run as two halves; the test makes
\* the first half be evaluated before the second is entered
Scan(json_str, lo, hi, q) ==
    IF lo > hi THEN q
    ELSE IF lo = hi THEN ScanChar(q, json_str[lo])
    ELSE LET mid == (lo + hi) \div 2
             half == Scan(json_str, lo, mid, q)
         IN  IF half.in_string THEN Scan(json_str, mid + 1, hi, half)
             ELSE Scan(json_str, mid + 1, hi, half)

\* lines 114-128: whether the scan of the quotes ends inside a string
InString(json_str) ==
    Scan(json_str, 1, Len(json_str), [in_string |-> FALSE, escape_next |-> FALSE]).in_string

\* n times the character
Repeat(char, n) == [k \in 1 .. n |-> char]

\* not json_str.strip(): only whitespace
Blank(json_str) == \A i \in 1 .. Len(json_str) : json_str[i] \in {" ", NL}

repair_truncated_json(json_str) ==
    LET open_braces == Count(json_str, "{")
        close_braces == Count(json_str, "}")
        open_brackets == Count(json_str, "[")
        close_brackets == Count(json_str, "]")
        closed == IF InString(json_str) THEN Append(json_str, "\"")
                  ELSE json_str
    IN  IF Blank(json_str) THEN json_str
        ELSE closed
             \o Repeat("]", MaxOf(open_brackets - close_brackets, 0))
             \o Repeat("}", MaxOf(open_braces - close_braces, 0))

\* ---- json.loads (structure_extractor.py:305, 314) on texts made of
\* objects, arrays and strings ----

Read(mode_, stack, chapters) == [mode |-> mode_, stack |-> stack, chapters |-> chapters]

\* after a value: the text ends if nothing is open
AfterValue(stack) == IF stack = << >> THEN "end" ELSE "after"

\* depth of a chapter object: document, its value, the chapters array
ChapterDepth == 3

\* a closer that matches what is open closes it
Close(r, opener) ==
    IF r.stack # << >> /\ r.stack[Len(r.stack)] = opener
    THEN LET rest == SubSeq(r.stack, 1, Len(r.stack) - 1)
         IN  Read(AfterValue(rest), rest,
                  r.chapters + (IF opener = "{" /\ Len(rest) = ChapterDepth THEN 1 ELSE 0))
    ELSE Read("fail", r.stack, r.chapters)

\* the decoder after one more character
ReadChar(r, char) ==
    LET fail == Read("fail", r.stack, r.chapters)
        to(mode_) == Read(mode_, r.stack, r.chapters)
        push(opener, mode_) == Read(mode_, Append(r.stack, opener), r.chapters)
    IN  CASE r.mode \in {"value", "first_item"} ->
               IF char = "\"" THEN to("string_value")
               ELSE IF char = "{" THEN push("{", "first_key")
               ELSE IF char = "[" THEN push("[", "first_item")
               ELSE IF char = "]" /\ r.mode = "first_item" THEN Close(r, "[")
               ELSE fail
          [] r.mode = "first_key" ->
               IF char = "\"" THEN to("string_key")
               ELSE IF char = "}" THEN Close(r, "{")
               ELSE fail
          [] r.mode = "key" -> IF char = "\"" THEN to("string_key") ELSE fail
          [] r.mode = "string_key" ->
               IF char = "\"" THEN to("colon")
               ELSE IF char = "\\" THEN to("escape_key")
               ELSE to("string_key")
          [] r.mode = "escape_key" -> to("string_key")
          [] r.mode = "colon" -> IF char = ":" THEN to("value") ELSE fail
          [] r.mode = "string_value" ->
               IF char = "\"" THEN to(AfterValue(r.stack))
               ELSE IF char = "\\" THEN to("escape_value")
               ELSE to("string_value")
          [] r.mode = "escape_value" -> to("string_value")
          [] r.mode = "after" ->
               IF char = "," THEN to(IF r.stack[Len(r.stack)] = "{" THEN "key" ELSE "value")
               ELSE IF char = "}" THEN Close(r, "{")
               ELSE IF char = "]" THEN Close(r, "[")
               ELSE fail
          [] OTHER -> fail

RECURSIVE ReadFrom(_, _, _, _)
\* the decoder over characters lo .. hi, run as two halves
ReadFrom(json_str, lo, hi, r) ==
    IF lo > hi THEN r
    ELSE IF lo = hi THEN ReadChar(r, json_str[lo])
    ELSE LET mid == (lo + hi) \div 2
             half == ReadFrom(json_str, lo, mid, r)
         IN  IF half.mode = "fail" THEN half
             ELSE ReadFrom(json_str, mid + 1, hi, half)

\* the decoder at the end of the text
ReadAll(json_str) == ReadFrom(json_str, 1, Len(json_str), Read("value", << >>, 0))

\* json.loads returns a value
Loads(json_str) == ReadAll(json_str).mode = "end"

\* an oracle response of the schema of lines 20-47
OracleResponse ==
    << "{", "\"", "d", "o", "c", "u", "m", "e", "n", "t", "\"", ":", "{", "\"", "c", "h",
       "a", "p", "t", "e", "r", "s", "\"", ":", "[", "{", "\"", "c", "h", "a", "p", "t",
       "e", "r", "_", "t", "i", "t", "l", "e", "\"", ":", "\"", "A", "\"", ",", "\"", "s",
       "e", "c", "t", "i", "o", "n", "s", "\"", ":", "[", "{", "\"", "s", "e", "c", "t",
       "i", "o", "n", "_", "t", "i", "t", "l", "e", "\"", ":", "\"", "B", "\"", ",", "\"",
       "p", "a", "r", "a", "g", "r", "a", "p", "h", "s", "\"", ":", "[", "\"", "x", " ",
       "\\", "\"", "y", "\\", "\"", "\"", ",", "\"", "z", "\"", "]", "}", "]", "}", ",",
       "{", "\"", "c", "h", "a", "p", "t", "e", "r", "_", "t", "i", "t", "l", "e", "\"",
       ":", "\"", "C", "\"", ",", "\"", "s", "e", "c", "t", "i", "o", "n", "s", "\"", ":",
       "[", "{", "\"", "s", "e", "c", "t", "i", "o", "n", "_", "t", "i", "t", "l", "e",
       "\"", ":", "\"", "D", "\"", ",", "\"", "p", "a", "r", "a", "g", "r", "a", "p", "h",
       "s", "\"", ":", "[", "\"", "w", "\"", "]", "}", "]", "}", "]", "}", "}" >>

\* the response cut off after n characters
TruncatedAt(n) == SubSeq(OracleResponse, 1, n)

RepairStart ==
    /\ fn_in \in { [json_str |-> TruncatedAt(n)] : n \in 1 .. Len(OracleResponse) }
    /\ fn_out = NoReturn

\* repaired_json = repair_truncated_json(raw_response), line 313
Call_repair_truncated_json ==
    /\ fn_out = NoReturn
    /\ fn_out' = [kind |-> "returned", repaired_json |-> repair_truncated_json(fn_in.json_str)]
    /\ UNCHANGED << fn_in, extractVars, bookVars, chatVars, contextVars >>

NextRepair == Call_repair_truncated_json

\* ---- the next cursor, computed on its own (lines 374-396) ----

\* length of the texts the lookup is run on
CursorTextLen == 7

\* texts with up to three newline characters
CursorTexts ==
    { MkText(CursorTextLen, nl) :
        nl \in { s \in SUBSET (0 .. CursorTextLen - 1) : Cardinality(s) <= 3 } }

\* a parsed window [current_pos, end_pos) of a text and the
\* last_processed_paragraph of its fragment: text of the window, or text
\* that occurs nowhere
CursorCallsOf(txt, cur, endp) ==
    { [text |-> txt, current_pos |-> cur, end_pos |-> endp, last_para |-> lp] :
        lp \in { << "z" >> }
               \cup UNION { { Slice(txt, i, j) : j \in i + 1 .. MinOf(i + MaxParaLen, endp) } :
                            i \in cur .. endp - 1 } }

CursorCalls ==
    UNION { CursorCallsOf(txt, cur, CursorTextLen - 1) : txt \in CursorTexts, cur \in {0, 1} }

CursorStart ==
    /\ fn_in \in CursorCalls
    /\ fn_out = NoReturn

\* lines 374-390: next_pos for a fragment with last_processed_paragraph
Call_next_pos ==
    /\ fn_out = NoReturn
    /\ fn_out' = [kind |-> "returned",
                  next_pos |-> NextPos(fn_in.text, fn_in.last_para, fn_in.current_pos,
                                       fn_in.end_pos)]
    /\ UNCHANGED << fn_in, extractVars, bookVars, chatVars, contextVars >>

NextCursor == Call_next_pos

\* ---- the merge of the fragments, on its own (lines 405-425) ----

\* chapters returned over the windows of a run
MaxMergeChapters == 4

\* chapters as the oracle is asked to return them: an object with a list of
\* sections, its title present or absent
FragmentChapters ==
    { Chapter("A", << S1 >>), Chapter("A", << S2 >>), Chapter("B", << S1 >>),
      Chapter(None, << S2 >>) }

FragmentLists == UNION { [1 .. n -> FragmentChapters] : n \in 0 .. MaxMergeChapters }

\* the parsed response of a window
Fragment(chs) == JObject("document", TRUE, chs, << >>, FALSE)

\* the parsed responses of two windows, in window order: every way of
\* returning a list of chapters in two parts
MergeCalls ==
    UNION { { << Fragment(SubSeq(chs, 1, k)), Fragment(SubSeq(chs, k + 1, Len(chs))) >> :
              k \in 0 .. Len(chs) } : chs \in FragmentLists }

MergeStart ==
    /\ fn_in \in { [fragments |-> fs] : fs \in MergeCalls }
    /\ fn_out = NoReturn

\* lines 405-425 for the fragment of the next window
Merge_fragment ==
    LET done == IF fn_out = NoReturn THEN 0 ELSE fn_out.merged
        acc == IF fn_out = NoReturn THEN << >> ELSE fn_out.accumulated_chapters
    IN  /\ done < Len(fn_in.fragments)
        /\ LET m == MergeFragment(acc, fn_in.fragments[done + 1])
           IN  fn_out' = [kind |-> "returned", merged |-> done + 1,
                          accumulated_chapters |-> m.acc, raised |-> m.raised]
        /\ UNCHANGED << fn_in, extractVars, bookVars, chatVars, contextVars >>

NextMerge == Merge_fragment

\* ---- unranked retrieval, on its own (chat.py:1101-1161, 2384-2407) ----

\* match_count of Path A (chat.py:1046, 2361)
SpecificCount == 5
GlobalCount == 10
\* .limit(10) of the selects (lines 1109, 1138, 2391)
SelectLimit == 10
\* "similarity": 0.5 (lines 1126, 1155, 2406), in hundredths
DefaultSimilarity == 50

\* books of the store; the scope is a prefix of them
StoredBooks == 3
\* rows a book may hold
RowCounts == {0, 3, 7, 12}

\* row number k of book b as the select returns it, formatted
FormattedChunk(b, k) == [book_id |-> b, row |-> k, similarity |-> DefaultSimilarity]

\* .eq("book_id", b)[.not_.is_("embedding", "null")].limit(10)
SelectRows(st, b, with_embedding) ==
    LET n == IF with_embedding /\ ~ st[b].embedded THEN 0 ELSE st[b].rows
    IN  [k \in 1 .. MinOf(n, SelectLimit) |-> FormattedChunk(b, k)]

Truncate(s, n) == SubSeq(s, 1, MinOf(n, Len(s)))

\* chat lines 1106-1130: rows with an embedding of every book, cut to
\* match_count after the loop
RECURSIVE ExtendEmbedded(_, _, _)
ExtendEmbedded(st, bs, chunks_) ==
    IF bs = << >> THEN chunks_
    ELSE ExtendEmbedded(st, Tail(bs), chunks_ \o SelectRows(st, Head(bs), TRUE))

UnrankedEmbedded_chat(st, bs, match_count) ==
    Truncate(ExtendEmbedded(st, bs, << >>), match_count)

\* chat lines 1136-1160: any rows of every book, cut to match_count after
\* each book that has rows
RECURSIVE UnrankedAny_chat(_, _, _, _)
UnrankedAny_chat(st, bs, match_count, chunks_) ==
    IF bs = << >> THEN chunks_
    ELSE LET data == SelectRows(st, Head(bs), FALSE)
         IN  UnrankedAny_chat(st, Tail(bs), match_count,
                              IF data # << >> THEN Truncate(chunks_ \o data, match_count)
                              ELSE chunks_)

\* stream lines 2388-2407: any rows of the first book that has rows
RECURSIVE UnrankedAny_stream(_, _)
UnrankedAny_stream(st, bs) ==
    IF bs = << >> THEN << >>
    ELSE LET data == SelectRows(st, Head(bs), FALSE)
         IN  IF data # << >> THEN data ELSE UnrankedAny_stream(st, Tail(bs))

\* the unranked retrievals of the two endpoints
UnrankedLayers == { << "chat", "embedded" >>, << "chat", "any" >>, << "stream", "any" >> }

UnrankedStart ==
    /\ fn_in \in { [entry |-> l[1], layer |-> l[2], is_global_query |-> g,
                    book_ids |-> Scope(n), rows |-> st] :
                   l \in UnrankedLayers, g \in BOOLEAN, n \in 1 .. StoredBooks - 1,
                   st \in [1 .. StoredBooks -> [rows : RowCounts, embedded : BOOLEAN]] }
    /\ fn_out = NoReturn

Call_unranked ==
    /\ fn_out = NoReturn
    /\ LET match_count == IF fn_in.is_global_query THEN GlobalCount ELSE SpecificCount
       IN  fn_out' =
             [kind |-> "returned",
              chunks |-> IF fn_in.entry = "stream"
                         THEN UnrankedAny_stream(fn_in.rows, fn_in.book_ids)
                         ELSE IF fn_in.layer = "embedded"
                         THEN UnrankedEmbedded_chat(fn_in.rows, fn_in.book_ids, match_count)
                         ELSE UnrankedAny_chat(fn_in.rows, fn_in.book_ids, match_count, << >>)]
    /\ UNCHANGED << fn_in, extractVars, bookVars, chatVars, contextVars >>

NextUnranked == Call_unranked

\* ---- the event stream of chat_stream (chat.py:1732-2787) ----
\* fn_in is the request with what its collaborators will answer, fn_out the
\* events yielded so far and the point the generator has reached

\* what the dispatch of chat_stream and the flags of lines 2686-2750 decide:
\* of is_reasoning_query, is_action_planner_query and is_global_query at most
\* one is set
Intents == {"no_books", "meta", "name", "global", "planner", "reasoning", "plain"}

\* the deltas of a streamed completion: with content, with content that
\* completes a citation, or without content
DeltaLists == {<< >>, << "content" >>, << "cited", "content" >>, << "empty", "cited" >>}

\* the call that raises, if one does: the completion request or the insert
\* of the messages
RaisingCalls == {"none", "generation", "save"}

StreamRequests ==
    [intent : Intents,
     single_book : BOOLEAN,
     book : {"missing", "summary", "no_summary"},
     search : {"found", "empty", "raised"},
     rows : BOOLEAN,
     artifact : {"valid", "invalid"},
     deltas : DeltaLists,
     raises : RaisingCalls]

StreamStart ==
    /\ fn_in \in StreamRequests
    /\ fn_out = [kind |-> "stream", at |-> "start", path |-> "none", i |-> 0,
                 cited |-> FALSE, events |-> << >>]

\* the generator yields evs and goes on at the point `at`
Yield(evs, at) == [fn_out EXCEPT !.events = @ \o evs, !.at = at]

\* an exception leaves stream_chat_response after evs: generate_stream
\* yields its own error event (lines 2781-2785)
StreamError(evs) == Yield(evs \o << "error" >>, "end")

\* the completion is requested after evs; then `after` is yielded and its
\* deltas are streamed
Generate(evs, after, path) ==
    IF fn_in.raises = "generation" THEN StreamError(evs)
    ELSE [Yield(evs \o after, "streaming") EXCEPT !.path = path]

\* n thinking events
Thinking(n) == [k \in 1..n |-> "thinking"]

\* lines 2602-2605
S_ErrorStream ==
    /\ fn_out.at = "start"
    /\ fn_in.intent = "no_books"
    /\ fn_out' = Yield(<< "error" >>, "end")
    /\ UNCHANGED << fn_in, extractVars, bookVars, chatVars, contextVars >>

\* lines 2623-2684: one token per word of the answer
S_MetaStream ==
    /\ fn_out.at = "start"
    /\ fn_in.intent = "meta"
    /\ fn_out' = IF fn_in.raises = "save"
                 THEN Yield(<< "thinking", "token", "error" >>, "end")
                 ELSE Yield(<< "thinking", "token", "done" >>, "end")
    /\ UNCHANGED << fn_in, extractVars, bookVars, chatVars, contextVars >>

\* lines 1756-1787
S_Intent ==
    /\ fn_out.at = "start"
    /\ fn_in.intent \notin {"no_books", "meta"}
    /\ fn_out' = IF fn_in.intent # "name" THEN Yield(<< "thinking" >>, "path_b")
                 ELSE IF fn_in.raises = "save"
                 THEN StreamError(<< "thinking", "thinking" >>)
                 ELSE Yield(<< "thinking", "thinking", "token", "done" >>, "end")
    /\ UNCHANGED << fn_in, extractVars, bookVars, chatVars, contextVars >>

\* lines 1790-1876
S_PathB ==
    /\ fn_out.at = "path_b"
    /\ fn_out' = IF ~ (fn_in.intent = "global" /\ fn_in.single_book)
                 THEN Yield(<< >>, "path_d")
                 ELSE IF fn_in.book = "missing"
                 THEN Yield(<< "thinking", "error" >>, "end")
                 ELSE IF fn_in.book = "summary"
                 THEN Generate(Thinking(2), << >>, "B")
                 ELSE Yield(<< "thinking", "thinking" >>, "path_d")
    /\ UNCHANGED << fn_in, extractVars, bookVars, chatVars, contextVars >>

\* lines 2008-2086: the artifact is requested, read and validated
Artifact(evs) ==
    IF fn_in.raises = "generation" THEN StreamError(evs)
    ELSE IF fn_in.artifact = "invalid" THEN Yield(evs \o << "error" >>, "path_c")
    ELSE IF fn_in.raises = "save" THEN StreamError(evs)
    ELSE Yield(evs \o << "token", "artifact", "sources", "done" >>, "end")

\* lines 1879-2089
S_PathD ==
    /\ fn_out.at = "path_d"
    /\ fn_out' = IF fn_in.intent # "planner" THEN Yield(<< >>, "path_c")
                 ELSE IF fn_in.search = "raised"
                 THEN Yield(Thinking(4) \o << "error" >>, "end")
                 ELSE IF fn_in.search = "empty"
                 THEN Yield(Thinking(4), "path_c")
                 ELSE Artifact(Thinking(5))
    /\ UNCHANGED << fn_in, extractVars, bookVars, chatVars, contextVars >>

\* lines 2092-2304; is_action_planner_query set excludes is_reasoning_query
S_PathC ==
    /\ fn_out.at = "path_c"
    /\ fn_out' = IF fn_in.intent # "reasoning" THEN Yield(<< >>, "path_a")
                 ELSE IF fn_in.search = "raised"
                 THEN Yield(Thinking(3) \o << "error" >>, "end")
                 ELSE IF fn_in.search = "empty"
                 THEN Yield(Thinking(4) \o << "error" >>, "end")
                 ELSE Generate(Thinking(7), Thinking(1), "C")
    /\ UNCHANGED << fn_in, extractVars, bookVars, chatVars, contextVars >>

\* lines 2357-2520
S_PathA ==
    /\ fn_out.at = "path_a"
    /\ LET searched == IF fn_in.search = "found" THEN Thinking(3)
                       ELSE IF fn_in.search = "empty" THEN Thinking(4)
                       ELSE Thinking(3)
       IN  fn_out' = IF fn_in.search # "found" /\ ~ fn_in.rows
                     THEN Yield(searched \o << "error" >>, "end")
                     ELSE Generate(searched \o Thinking(3), Thinking(1), "A")
    /\ UNCHANGED << fn_in, extractVars, bookVars, chatVars, contextVars >>

\* one pass of the loop over the deltas (lines 1841-1844, 2306-2325,
\* 2521-2540): Path B yields the content; Paths C and A first yield every
\* citation their buffer holds, and the buffer keeps a citation until more
\* than 20 characters follow it
S_Delta ==
    /\ fn_out.at = "streaming"
    /\ fn_out.i < Len(fn_in.deltas)
    /\ LET delta == fn_in.deltas[fn_out.i + 1]
           holds == fn_out.path # "B" /\ (delta = "cited" \/ fn_out.cited)
       IN  \E kept \in BOOLEAN :
             fn_out' = IF delta = "empty" THEN [fn_out EXCEPT !.i = @ + 1]
                       ELSE [Yield(IF holds THEN << "citation", "token" >> ELSE << "token" >>,
                                   "streaming")
                                EXCEPT !.i = @ + 1, !.cited = holds /\ kept]
    /\ UNCHANGED << fn_in, extractVars, bookVars, chatVars, contextVars >>

\* after the last delta the messages are saved and done is yielded (lines
\* 1846-1871, 2327-2354, 2542-2567)
S_Done ==
    /\ fn_out.at = "streaming"
    /\ fn_out.i >= Len(fn_in.deltas)
    /\ fn_out' = IF fn_in.raises = "save" THEN StreamError(<< >>)
                 ELSE Yield(<< "done" >>, "end")
    /\ UNCHANGED << fn_in, extractVars, bookVars, chatVars, contextVars >>

NextStream ==
    \/ S_ErrorStream
    \/ S_MetaStream
    \/ S_Intent
    \/ S_PathB
    \/ S_PathD
    \/ S_PathC
    \/ S_PathA
    \/ S_Delta
    \/ S_Done

\* the variables of each part while the other part is checked
BooksOff ==
    /\ book = NoBook
    /\ access = {}
    /\ parent_chunks = {}
    /\ child_chunks = {}
    /\ req = {}
    /\ started = 0
    /\ stubs = Stub(EmptyTree, "returned", "exact", 0)
    /\ passes = << >>

ExtractOff ==
    /\ stub = "marker"
    /\ text = << >>
    /\ pc = "off"
    /\ current_pos = 0
    /\ end_pos = 0
    /\ chunk_text = << >>
    /\ is_last_chunk = FALSE
    /\ retry_count = 0
    /\ chunk_number = 0
    /\ accumulated_chapters = << >>
    /\ prompt = NoPrompt
    /\ window_calls = 0
    /\ iter_start = 0
    /\ last_event = NoEvent
    /\ result = NoResult

ChatOff ==
    /\ message = << >>
    /\ has_existing_artifact = FALSE
    /\ query = [entry |-> "chat", n_books |-> 1, has_book_id |-> TRUE]
    /\ flags = NoFlags
    /\ index = NoIndex
    /\ store = NoStore
    /\ qpc = "off"
    /\ calls = << >>
    /\ generations = << >>
    /\ reply = NoReply

vars == << extractVars, bookVars, answerVars >>

Init == InitExtract /\ BooksOff /\ ChatOff /\ ContextOff /\ PureOff
Next == NextExtract
Spec == Init /\ [][Next]_vars

\* every step the code can take is eventually taken: each oracle call returns
\* or raises, and the loop is a single sequential thread
LiveSpec == Init /\ [][Next]_vars /\ WF_vars(Next)

\* concurrent requests on one file
InitBooks == BooksStart /\ ExtractOff /\ ChatOff /\ ContextOff /\ PureOff
SpecBooks == InitBooks /\ [][NextBooks]_vars

\* the handlers run on when they can
LiveBooks == InitBooks /\ [][NextBooks]_vars /\ WF_vars(HandlerStep)

\* a single ingestion
InitIngest == IngestStart /\ ExtractOff /\ ChatOff /\ ContextOff /\ PureOff
SpecIngest == InitIngest /\ [][NextIngest]_vars

\* the classifier on every message
InitClassify == ClassifyStart /\ ExtractOff /\ BooksOff /\ ContextOff /\ PureOff
SpecClassify == InitClassify /\ [][NextClassify]_vars

\* one query through chat or the stream
InitRetrieve == RetrieveStart /\ ExtractOff /\ BooksOff /\ ContextOff /\ PureOff
SpecRetrieve == InitRetrieve /\ [][NextRetrieve]_vars

\* the assembly of the context and the source list of one answer
InitContext == ContextStart /\ ExtractOff /\ BooksOff /\ ChatOff /\ PureOff
SpecContext == InitContext /\ [][NextContext]_vars

\* calls of generate_chunk_id
InitCite == ContextOff /\ ExtractOff /\ BooksOff /\ ChatOff /\ PureOff
SpecCite == InitCite /\ [][NextCite]_vars

\* get_safe_chunk_boundary on texts, cursors and target sizes
InitSlice == SliceStart /\ ExtractOff /\ BooksOff /\ ChatOff /\ ContextOff
SpecSlice == InitSlice /\ [][NextSlice]_vars

\* repair_truncated_json on every truncation of an oracle response
InitRepair == RepairStart /\ ExtractOff /\ BooksOff /\ ChatOff /\ ContextOff
SpecRepair == InitRepair /\ [][NextRepair]_vars

\* the next cursor for every short text, window and paragraph
InitCursor == CursorStart /\ ExtractOff /\ BooksOff /\ ChatOff /\ ContextOff
SpecCursor == InitCursor /\ [][NextCursor]_vars

\* the merge of every run of up to two fragments
InitMerge == MergeStart /\ ExtractOff /\ BooksOff /\ ChatOff /\ ContextOff
SpecMerge == InitMerge /\ [][NextMerge]_vars

\* unranked retrieval for every store of three books
InitUnranked == UnrankedStart /\ ExtractOff /\ BooksOff /\ ChatOff /\ ContextOff
SpecUnranked == InitUnranked /\ [][NextUnranked]_vars

InitStream == StreamStart /\ ExtractOff /\ BooksOff /\ ChatOff /\ ContextOff
SpecStream == InitStream /\ [][NextStream]_vars

----------------------------------------------------------------------------
(* Claims about extract_structure *)

InRollingLoop == Len(text) > chunk_size

\* C1: in the rolling loop, whatever the oracle did in an iteration (fragment
\* with or without a findable last_processed_paragraph, stopped_early,
\* unparseable output, raised error), the cursor after the iteration is
\* strictly greater than the cursor before it and at most N.
C1_CursorAdvances ==
    (pc = "loop" /\ chunk_number > 0)
        => (iter_start < current_pos /\ current_pos <= Len(text))

\* an iteration whose fragment had stopped_early = true and no
\* last_processed_paragraph has ended, and a further window follows
C1_Witness ==
    /\ pc = "loop"
    /\ chunk_number >= 2
    /\ last_event = Event("fragment", "missing", TRUE)
    /\ iter_start < current_pos
    /\ current_pos < Len(text)

\* C2: the rolling loop terminates: it starts at most N iterations, and the
\* state cursor >= N is eventually reached, where the merged structure is
\* returned.
C2_Terminates ==
    /\ [](chunk_number <= Len(text))
    /\ InRollingLoop =>
         <>(/\ pc = "returned"
            /\ current_pos >= Len(text)
            /\ result = Returned(all_chapters(accumulated_chapters)))

\* a long text was returned after three or more windows
C2_Witness ==
    /\ InRollingLoop
    /\ pc = "returned"
    /\ chunk_number >= 3
    /\ result.kind = "returned"

\* C3: at most 3 oracle calls per window; when all of them fail no exception
\* leaves the loop, the cursor is the end of the window last sent, and the
\* loop goes on.
C3_RetryBudget ==
    /\ window_calls <= 3
    /\ InRollingLoop => pc # "raised"
    /\ (InRollingLoop /\ pc = "loop" /\ last_event.outcome \in {"raised", "unparseable"})
         => /\ window_calls = 3
            /\ current_pos = end_pos
            /\ current_pos = iter_start + Len(prompt.chunk_text)

\* three unparseable answers, the window skipped, text left to process
C3_Witness ==
    /\ InRollingLoop
    /\ pc = "loop"
    /\ last_event.outcome = "unparseable"
    /\ window_calls = 3
    /\ current_pos = end_pos
    /\ current_pos < Len(text)

\* C4: an unparseable oracle response never makes extract_structure raise,
\* for a text of any length.
C4_UnparseableNeverRaises ==
    ~(pc = "raised" /\ last_event.outcome = "unparseable")

----------------------------------------------------------------------------
(* Claims about upload_book, trigger_processing and process_book *)

StatusPaths ==
    { << "uploaded", "processing" >>, << "processing", "ready" >>,
      << "processing", "error" >>, << "error", "processing" >> }

\* C5: the status of a stored document changes only along uploaded ->
\* processing, processing -> ready, processing -> error and error ->
\* processing (a write of the value it already has aside); so ready is never
\* left, and ready or error is never written onto a document that is not in
\* processing.
C5_StatusPaths ==
    [][ (book.exists /\ book'.status # book.status)
            => << book.status, book'.status >> \in StatusPaths ]_vars

\* runs that hold a unit of the store
StoredRuns ==
    { p.id.run : p \in parent_chunks } \cup { c.parent_id.run : c \in child_chunks }

InSuccession ==
    /\ Len(passes) = 2
    /\ ~ passes[1].overlapped /\ ~ passes[2].overlapped

NonBlank(p) == p # NullParagraph /\ \E i \in 1 .. Len(p) : p[i] \notin Whitespace

NonBlanks(section) == SelectSeq(section.paragraphs, NonBlank)

\* << chapter, section >> positions of the structure
Positions(t) ==
    UNION { { << ci, si >> : si \in 1 .. Len(t[ci].sections) } : ci \in 1 .. Len(t) }

\* positions of the sections that are to be stored
WithText(t) == { pos \in Positions(t) : NonBlanks(t[pos[1]].sections[pos[2]]) # << >> }

ChildrenOf(p) == { c \in child_chunks : c.parent_id = p.id }

\* parent row p and its child rows are what section sec of chapter ch asks for
StoresSection(p, ch, sec) ==
    LET k == Len(NonBlanks(sec))
    IN  /\ p.chapter_title = ch.chapter_title
        /\ p.full_text = JoinParagraphs([i \in 1 .. k |-> Strip(NonBlanks(sec)[i])])
        /\ Cardinality(ChildrenOf(p)) = k
        /\ { c.paragraph_index : c \in ChildrenOf(p) } = 0 .. k - 1
        /\ \A c \in ChildrenOf(p) :
              c.text = Strip(NonBlanks(sec)[c.paragraph_index + 1])

\* a run over the structure ended in ready, every embedding call having
\* returned one vector per text
RunCompleted ==
    /\ passes # << >>
    /\ passes[1].ended = "ready"
    /\ stubs.embed_how = "exact"

Moved(r, r2) == r \in req /\ r2 \in req' /\ r2.run = r.run /\ r2.pc # r.pc

RetryPcs == {"delete_children", "delete_parents", "set_processing", "update_book"}

\* C10: when the check of upload_book finds the document in processing, with
\* no Child Unit and a timestamp older than the 2-minute window, the next
\* thing the request does is to write status error with a diagnostic; no
\* retry step comes before that write.
C10_StuckIsMarked ==
    [][ \A r \in req : \A r2 \in req' :
          /\ ( /\ Moved(r, r2)
               /\ r.pc = "stuck_check"
               /\ ~ r2.has_chunks
               /\ r2.updated_at = "iso"
               /\ r2.time_since_update > StaleMinutes )
                 => r2.pc = "mark_stuck" /\ r2.diagnostic # "none"
          /\ (Moved(r, r2) /\ r.pc = "mark_stuck")
                 => /\ book'.status = "error"
                    /\ book'.processing_error = r.diagnostic
                    /\ book'.processing_error # "none"
                    /\ r2.pc \notin RetryPcs ]_vars

\* the verdict of a stale timestamp has just been written
C10_Witness ==
    \E r \in req :
        /\ r.pc = "owner_check"
        /\ r.diagnostic = "no chunks created after"
        /\ book.status = "error"
        /\ book.processing_error = "no chunks created after"

\* the user whose row of user_book_access is the owner's
IsOwner(u) == \E a \in access : a.user_id = u /\ a.is_owner

ReprocessPcs == {"delete_children", "delete_parents", "set_processing"}

\* C11: the steps of a reprocessing pass (the delete of the document's Child
\* and Parent Units, the write of status processing) are taken only by a
\* request of the document's owner, in upload_book and in trigger_processing.
C11_OnlyOwnerReprocesses ==
    [][ \A r \in req : \A r2 \in req' :
          (Moved(r, r2) /\ r.pc \in ReprocessPcs) => IsOwner(r.user_id) ]_vars

ProcessBookPcs == {"pb_start", "pb_parent", "pb_child", "pb_ready", "pb_error"}

\* process_book, scheduled by request number n, is running
Running(n) == \E r \in req : r.run = n /\ r.pc \in ProcessBookPcs

\* request number n has returned its response
Answered(n) == started >= n /\ \A r \in req : r.run # n

\* C12: the request that scheduled process_book does not wait for it: it
\* returns its response whether or not process_book goes on, so also while
\* process_book is running and the document is in status processing.
C12_ResponseNotHeld ==
    \A n \in 1 .. MaxRequests : Running(n) ~> Answered(n)

----------------------------------------------------------------------------
(* Claims about the query router *)

\* the strategies the flags select; Specific is the strategy of no flag
Strategies(f) ==
    (IF f.is_reasoning_query THEN {"Reasoning"} ELSE {})
    \cup (IF f.is_action_planner_query THEN {"ActionPlanner"} ELSE {})
    \cup (IF f.is_global_query THEN {"Global"} ELSE {})
    \cup (IF ~ f.is_reasoning_query /\ ~ f.is_action_planner_query /\ ~ f.is_global_query
          THEN {"Specific"} ELSE {})

Occurs(keywords) == AnyKeyword(Lower(message), keywords)

TieBreak ==
    IF Occurs(reasoning_intent_keywords) THEN "Reasoning"
    ELSE IF /\ Occurs(action_planner_keywords)
            /\ ~ (has_existing_artifact /\ Occurs(follow_up_keywords))
         THEN "ActionPlanner"
    ELSE IF Occurs(global_intent_keywords) THEN "Global"
    ELSE "Specific"

\* C16: for every query text and every value of has_existing_artifact the
\* classifier selects exactly one strategy, in the order Reasoning, then
\* ActionPlanner unless the query is a follow-up (which takes an artifact in
\* the history), then Global, then Specific.
C16_OneStrategyInOrder ==
    qpc # "classify" => Strategies(flags) = { TieBreak }

\* a follow-up keyword without an artifact in the history, and the query
\* is classified ActionPlanner
C16_Witness ==
    /\ qpc = "path_b"
    /\ ~ has_existing_artifact
    /\ Occurs(follow_up_keywords)
    /\ ~ Occurs(reasoning_intent_keywords)
    /\ flags.is_action_planner_query

\* the layers of the retrieval chain, in the order of the chain
LayerRank(layer) ==
    CASE layer = "combined" -> 1
      [] layer = "semantic" -> 2
      [] layer = "relaxed" -> 3
      [] layer = "unranked" -> 4
      [] OTHER -> 0

ChainCalls == { i \in 1 .. Len(calls) : LayerRank(calls[i].layer) > 0 }

\* call j is a call of a later layer after call i returned rows
LaterLayerAfter(i, j) ==
    /\ i < j
    /\ calls[i].found
    /\ LayerRank(calls[j].layer) > LayerRank(calls[i].layer)

ScopeRows == UnitsOf(store.children, book_ids, {"plain", "embedded"})

\* the query ended after a retrieval path had searched
RetrievalEnded == qpc = "done" /\ calls # << >>

\* C14: when every retrieval layer yields no Child Unit (the scope holds
\* none), the query ends with the explicit no-content outcome and the
\* generation oracle is not invoked; and on the retrieval paths the oracle
\* is invoked only with a context of at least one retrieved unit.
C14_NoContentIsExplicit ==
    /\ (RetrievalEnded /\ ScopeRows = << >>)
           => (reply.kind = "no_content" /\ generations = << >>)
    /\ \A g \in 1 .. Len(generations) : generations[g].units >= 1

\* every search of the index raises
IndexDown ==
    /\ index.action_metadata = Unavailable
    /\ index.hybrid = Unavailable
    /\ index.vector = Unavailable

\* C15: for every strategy and every number of scope ids, when the searches
\* of the index raise while the scope holds Child Units, the query is
\* answered from unranked retrieval, and no error reaches the user.
C15_IndexDownStillAnswers ==
    (RetrievalEnded /\ IndexDown /\ ScopeRows # << >>)
        => /\ reply.kind = "answer"
           /\ \E i \in 1 .. Len(calls) : calls[i].layer = "unranked" /\ calls[i].found

----------------------------------------------------------------------------
(* Claims about the context assembly *)

\* the Parent Unit of a retrieved unit is in the store
ParentExists(chunk) ==
    chunk.parent_id \in ParentIds /\ parent_rows[chunk.parent_id] = "found"

\* C17: every retrieved Child Unit whose Parent Unit exists in the store
\* gets the parent's full text as its context text, the second and later
\* units of one parent included; a unit's own text is used only when its
\* parent is not found.
C17_ParentTextForEveryUnit ==
    \A i \in 1 .. Len(enhanced_chunks) :
        LET chunk == chunks[i]
            context_text == enhanced_chunks[i].context_text
        IN  /\ ParentExists(chunk)
                  => context_text = FetchedParent(chunk.parent_id).full_text
            /\ context_text = chunk.text => ~ ParentExists(chunk)

\* the labels of the enhanced chunks, in retrieval order
Labels ==
    [i \in 1 .. Len(enhanced_chunks) |->
        SourceLabel(enhanced_chunks[i].chunk.book_title,
                    enhanced_chunks[i].chapter_title,
                    enhanced_chunks[i].section_title)]

RECURSIVE FirstSeen(_)
\* a sequence without the members that occurred before
FirstSeen(seq) ==
    IF seq = << >> THEN << >>
    ELSE LET front == SubSeq(seq, 1, Len(seq) - 1)
             last == seq[Len(seq)]
         IN  IF last \in Range(front) THEN FirstSeen(front)
             ELSE Append(FirstSeen(front), last)

\* C18: the source list returned with an answer holds each distinct label
\* (scope title, chapter, section) once, in the order in which the labels
\* first appear in retrieval order.
C18_SourcesInFirstSeenOrder ==
    apc = "done" => sources_list = FirstSeen(Labels)

\* C19: assembling the context sends at most one Parent Unit fetch request
\* to the store, whatever the number of distinct parents referenced.
C19_OneParentFetch == fetches <= 1

\* "#chk_" and 8 lower-case hexadecimal characters
WellFormed(token) ==
    /\ Len(token) = 13
    /\ SubSeq(token, 1, 5) = << "#", "c", "h", "k", "_" >>
    /\ \A k \in 6 .. 13 : token[k] \in Range(HexDigits)

----------------------------------------------------------------------------
(* Claims about get_safe_chunk_boundary *)

SliceReturned == fn_out.kind = "returned" /\ DOMAIN fn_in = {"text", "start_pos", "target_size"}

\* cursor + target_size, or the end of the text if that comes first
RawEnd == MinOf(fn_in.start_pos + fn_in.target_size, Len(fn_in.text))

\* character i of the text, counted from 0
CharAt(i) == fn_in.text[i + 1]

\* C21: for a text of length N, a cursor with 0 <= cursor < N and a target
\* size of at least 1, the end position returned lies after the cursor and
\* not after min(cursor + target_size, N), the window returned is
\* text[cursor:end_position], and a boundary at which the window is cut lies
\* inside the window.
C21_WindowInBounds ==
    SliceReturned =>
        /\ fn_in.start_pos < fn_out.end_pos
        /\ fn_out.end_pos <= RawEnd
        /\ fn_out.chunk_text =
               [k \in 1 .. (fn_out.end_pos - fn_in.start_pos) |-> CharAt(fn_in.start_pos + k - 1)]
        /\ fn_out.end_pos < RawEnd
               => /\ CharAt(fn_out.end_pos - 1) = NL
                  /\ fn_out.end_pos - 1 > fn_in.start_pos

\* the window is cut before its raw end
C21_Witness ==
    /\ SliceReturned
    /\ fn_in.start_pos > 0
    /\ fn_out.end_pos < RawEnd

\* a tenth of the target size, rounded up
TenthOf(target_size) == (target_size + 9) \div 10

\* the last 10% of the window
LastTenth ==
    (fn_in.start_pos + fn_in.target_size - TenthOf(fn_in.target_size)) .. (RawEnd - 1)

ParagraphBoundaries ==
    { i \in LastTenth : (i + 1) \in LastTenth /\ CharAt(i) = NL /\ CharAt(i + 1) = NL }

LineBoundaries == { i \in LastTenth : CharAt(i) = NL }

CutsAtLastBoundary ==
    SliceReturned =>
        fn_out.end_pos =
            IF fn_in.start_pos + fn_in.target_size >= Len(fn_in.text) THEN Len(fn_in.text)
            ELSE IF ParagraphBoundaries # {} THEN Max(ParagraphBoundaries) + 2
            ELSE IF LineBoundaries # {} THEN Max(LineBoundaries) + 1
            ELSE fn_in.start_pos + fn_in.target_size

\* the first window of the 100,000-character text ends at 39,502
ExampleEndsAfterBoundary ==
    (SliceReturned /\ fn_in.target_size = 40000) => fn_out.end_pos = 39502

\* C22: the call returns (N, remainder) when cursor + target_size >= N;
\* otherwise it cuts just after the last "\n\n" lying wholly in the last 10%
\* of the window, else just after the last "\n" there, else at
\* cursor + target_size; a paragraph boundary wins over a later line
\* boundary;
\* and the first window of a 100,000-character text with target 40,000 and
\* one paragraph boundary at 39,500 ends at 39,502.
C22_CutAtLastBoundary == CutsAtLastBoundary /\ ExampleEndsAfterBoundary

\* a paragraph boundary with a line boundary after it, both in the last 10%
C22_Witness ==
    /\ SliceReturned
    /\ ParagraphBoundaries # {}
    /\ Max(LineBoundaries) > Max(ParagraphBoundaries) + 1
    /\ fn_out.end_pos = Max(ParagraphBoundaries) + 2

----------------------------------------------------------------------------
(* Claims about repair_truncated_json *)

RepairReturned == fn_out.kind = "returned" /\ DOMAIN fn_in = {"json_str"}

\* the response was cut off inside a string value
CutInStringValue == ReadAll(fn_in.json_str).mode \in {"string_value", "escape_value"}

\* C23: repair_truncated_json applied to a response of the documented shape
\* that was cut off inside a string value returns text that parses, and the
\* parsed value holds every chapter that was complete before the cut.
C23_RepairedParses ==
    (RepairReturned /\ CutInStringValue)
        => /\ Loads(fn_out.repaired_json)
           /\ ReadAll(fn_out.repaired_json).chapters >= ReadAll(fn_in.json_str).chapters

\* the whole response parses and holds its two chapters
RepairSanity ==
    (RepairReturned /\ fn_in.json_str = OracleResponse)
        => Loads(fn_out.repaired_json) /\ ReadAll(fn_out.repaired_json).chapters = 2

----------------------------------------------------------------------------
(* Claims about concurrent passes over one document *)

\* two passes of the document that overlapped have both ended, and no
\* request is in a pass
BothPassesEnded ==
    /\ Len(passes) = 2
    /\ passes[1].overlapped /\ passes[2].overlapped
    /\ \A r \in req : ~ InPass(r)

\* both passes were begun by upload_book (the second one, then, by a retry
\* the stuck check opened while process_book of the first was running); the
\* two requests have their responses still to return
BothByUpload ==
    /\ Cardinality(req) = 2
    /\ \A r \in req : r.kind = "upload" /\ r.pc = "respond" /\ r.ended # "none"

\* no content of a Parent or Child Unit is held by two rows
NoUnitTwice ==
    LET u == Units(parent_chunks, child_chunks)
    IN  /\ Cardinality(u.parents) = u.n_parents
        /\ Cardinality(u.children) = u.n_children

----------------------------------------------------------------------------
(* Claims about the lookup of last_processed_paragraph *)

\* C26: after a window [cursor, end) whose fragment was parsed, the next
\* cursor is not beyond end: last_processed_paragraph is looked up inside the
\* window only, an occurrence beyond its end counts as not found, and no text
\* is skipped without having been in a window.
C26_CursorWithinWindow ==
    (pc = "loop" /\ chunk_number > 0 /\ last_event.outcome = "fragment")
        => current_pos <= end_pos

----------------------------------------------------------------------------
(* Claims about how a run and a request end *)

\* no oracle call and no embedding call of the run fails
NoCallFails == stubs.extract # "raised" /\ stubs.embed_how = "exact"

\* C27: a processing run in which the oracle returns valid fragments and no
\* collaborator or store call fails ends with the document in status ready.
C27_CleanRunEndsReady ==
    (passes # << >> /\ NoCallFails)
        => (passes[1].ended = "ready" /\ (req = {} => book.status = "ready"))

\* C28: upload_book for a file whose hash matches no stored document, with
\* storage and text extraction succeeding, goes on to create the record: it
\* inserts the document in status processing, makes the uploader its owner
\* and schedules process_book; it does not end with an error before that.
C28_NewFileIsRecorded ==
    [][ \A r \in req : \A r2 \in req' :
          /\ (Moved(r, r2) /\ r.pc = "new_file" /\ r2.diagnostic # "storage failed")
                 => r2.pc = "insert_book"
          /\ (Moved(r, r2) /\ r.pc = "insert_book" /\ ~ book.exists)
                 => book'.exists /\ book'.status = "processing" /\ r2.pc = "insert_access"
          /\ (Moved(r, r2) /\ r.pc = "insert_access")
                 => AccessRow(r.user_id, TRUE) \in access' /\ r2.pc = "pb_start" ]_vars

\* C29: upload_book writes status error onto a document in processing only
\* when its check counted zero Child Units and read a last-update timestamp
\* older than the staleness window; with a Child Unit, or with a last update
\* not known to be that old, the document is left in processing.
C29_StuckOnlyWhenStale ==
    [][ \A r \in req : \A r2 \in req' :
          (Moved(r, r2) /\ r.pc = "mark_stuck"
                /\ book.status = "processing" /\ book'.status = "error")
              => /\ ~ r.has_chunks
                 /\ r.updated_at = "iso"
                 /\ r.time_since_update > StaleMinutes ]_vars

----------------------------------------------------------------------------
(* Claims about the fallthrough between strategies *)

\* the searches of a path were made and none of them returned a row
YieldedNothing(path) ==
    /\ \E i \in 1 .. Len(calls) : calls[i].path = path
    /\ \A i \in 1 .. Len(calls) : calls[i].path = path => ~ calls[i].found

\* every search of the index returns
IndexUp ==
    /\ index.action_metadata # Unavailable
    /\ index.hybrid # Unavailable
    /\ index.vector # Unavailable

\* C30: in chat and in stream_chat_response, when the retrieval of the
\* ActionPlanner strategy (Path D) or of the Reasoning strategy (Path C)
\* yields no Child Unit, the request does not end there: the chain of the
\* Specific strategy (Path A) is run.
C30_FallsThroughToSpecific ==
    (qpc = "done" /\ IndexUp /\ (YieldedNothing("C") \/ YieldedNothing("D")))
        => \E i \in 1 .. Len(calls) : calls[i].path = "A"

----------------------------------------------------------------------------
(* Claims about the ActionPlanner path of chat *)

\* a search of Path D returned rows
PlannerFound == \E i \in 1 .. Len(calls) : calls[i].path = "D" /\ calls[i].found

\* C31: in chat, an ActionPlanner query whose retrieval returned at least one
\* Child Unit ends with the response that carries the artifact or, the
\* artifact being invalid, goes on to the Specific path; assembling the
\* context of Path D never ends the request with an internal error.
C31_PlannerContextNeverFails ==
    (query.entry = "chat" /\ qpc = "done" /\ PlannerFound)
        => ~ (reply.kind = "error" /\ reply.path = "D")

----------------------------------------------------------------------------
(* Claims about the cursor after a found paragraph *)

CursorReturned == fn_out.kind = "returned" /\ "last_para" \in DOMAIN fn_in

\* where the first occurrence of last_processed_paragraph at or after the
\* cursor ends, or -1
ParagraphEnd ==
    LET at == Find(fn_in.text, fn_in.last_para, fn_in.current_pos, Len(fn_in.text))
    IN  IF at < 0 THEN -1 ELSE at + Len(fn_in.last_para)

SeparatorAt(p) == Slice(fn_in.text, p, p + 2) = << NL, NL >>

\* C32: when last_processed_paragraph is found ending at position p, the
\* next cursor is p + 2 if a blank-line separator starts exactly at p, and p
\* otherwise.
C32_SkipsOnlyTheSeparator ==
    (CursorReturned /\ ParagraphEnd > fn_in.current_pos)
        => fn_out.next_pos = (IF SeparatorAt(ParagraphEnd) THEN ParagraphEnd + 2
                              ELSE ParagraphEnd)

----------------------------------------------------------------------------
(* Claims about the retry loop of a window *)

\* a response that did not parse made the loop retry on a re-sliced window,
\* or skip the window
GaveUpOnResponse ==
    /\ pc = "call"
    /\ \/ pc' = "call" /\ retry_count' = retry_count + 1 /\ prompt' # prompt
       \/ pc' = "loop" /\ last_event'.outcome = "unparseable"

\* C33: every oracle response that fails to parse, on the first attempt and
\* on each retry, is passed through truncation repair before the window is
\* shrunk and the call retried, or the window skipped.
C33_RepairBeforeEveryRetry ==
    [][ GaveUpOnResponse => retry_count = 0 ]_vars

\* C34: in every oracle call of the rolling loop, a retry on a shrunken
\* window included, the final-window indication sent to the oracle is true
\* exactly when the window that is sent ends at the end of the Source Text.
C34_FinalWindowIndication ==
    pc = "call"
        => (prompt.is_last_chunk <=> (current_pos + Len(prompt.chunk_text) = Len(text)))

----------------------------------------------------------------------------
(* Claims about the merged structure *)

MergeReturned == fn_out.kind = "returned" /\ DOMAIN fn_in = {"fragments"}

\* the chapters of the fragments merged so far, in window order and within a
\* window in the order the oracle returned them
RECURSIVE ChaptersReturned(_)
ChaptersReturned(n) ==
    IF n = 0 THEN << >>
    ELSE ChaptersReturned(n - 1) \o fn_in.fragments[n].chapters

\* the titles of chs, each once, in order of first appearance
RECURSIVE TitlesInOrder(_)
TitlesInOrder(chs) ==
    IF chs = << >> THEN << >>
    ELSE LET before == TitlesInOrder(SubSeq(chs, 1, Len(chs) - 1))
             t == TitleOf(chs[Len(chs)])
         IN  IF \E i \in 1 .. Len(before) : before[i] = t THEN before
             ELSE Append(before, t)

\* all sections of chs returned under title t, in order
RECURSIVE SectionsUnder(_, _)
SectionsUnder(chs, t) ==
    IF chs = << >> THEN << >>
    ELSE (IF TitleOf(Head(chs)) = t THEN Head(chs).sections ELSE << >>)
         \o SectionsUnder(Tail(chs), t)

\* C35: after the fragments are merged, the accumulated structure holds one
\* chapter entry per distinct chapter title, in order of first appearance of
\* the titles, and the sections of each entry are the concatenation, in
\* window order and within a window in oracle-return order, of all sections
\* returned under that title.
C35_MergedByTitle ==
    MergeReturned =>
        LET chs == ChaptersReturned(fn_out.merged)
            acc == fn_out.accumulated_chapters
        IN  /\ ~ fn_out.raised
            /\ [i \in 1 .. Len(acc) |-> acc[i].chapter_title] = TitlesInOrder(chs)
            /\ \A i \in 1 .. Len(acc) :
                  acc[i].sections = SectionsUnder(chs, acc[i].chapter_title)

\* two windows returned sections under one title, between them a chapter of
\* another title and a chapter without title, and both fragments are merged
C35_Witness ==
    /\ MergeReturned
    /\ fn_out.merged = 2
    /\ fn_in.fragments[1].chapters = << Chapter("A", << S1 >>), Chapter("B", << S1 >>) >>
    /\ fn_in.fragments[2].chapters = << Chapter(None, << S2 >>), Chapter("A", << S2 >>) >>
    /\ Len(fn_out.accumulated_chapters) = 3
    /\ fn_out.accumulated_chapters[1].sections = << S1, S2 >>
    /\ fn_out.accumulated_chapters[3].chapter_title = "Untitled Chapter"

\* chapter ch of a returned tree has sections, and each of them paragraphs
HasParagraphsThroughout(ch) ==
    /\ ch.is_object
    /\ ch.sections # << >>
    /\ \A k \in 1 .. Len(ch.sections) : ch.sections[k].paragraphs # << >>

\* C36: the structure tree extract_structure returns from the rolling loop
\* contains no chapter without paragraphs and no section whose paragraph
\* list is empty.
C36_NoEmptyChapterOrSection ==
    (InRollingLoop /\ result.kind = "returned")
        => \A i \in 1 .. Len(result.document.chapters) :
              HasParagraphsThroughout(result.document.chapters[i])

----------------------------------------------------------------------------
(* Claims about the last layers of the Specific chain *)

\* call number j is a call of layer by Path A
SpecificCall(j, layer) == calls[j].path = "A" /\ calls[j].layer = layer

\* C37: in chat and in stream_chat_response, when the ranked layers of Path A
\* (thresholds 0.7 and 0.5, both above 0.3) returned zero results, the
\* semantic search at threshold 0.3 is invoked before unranked retrieval:
\* with no search raising, unranked retrieval comes only after the relaxed
\* search.
C37_RelaxedBeforeUnranked ==
    IndexUp =>
        \A j \in 1 .. Len(calls) :
            SpecificCall(j, "unranked")
                => \E i \in 1 .. j - 1 : SpecificCall(i, "relaxed")

UnrankedReturned == fn_out.kind = "returned" /\ "layer" \in DOMAIN fn_in

\* C38: unranked retrieval, in both endpoints, returns at most count Child
\* Units, count being the result count of the strategy in use (5 for
\* Specific, 10 for Global), all of them of the requested scope ids and each
\* with the default relevance score 0.5.
C38_UnrankedAtMostCount ==
    UnrankedReturned =>
        /\ Len(fn_out.chunks) <= (IF fn_in.is_global_query THEN 10 ELSE 5)
        /\ \A i \in 1 .. Len(fn_out.chunks) :
              /\ \E b \in 1 .. Len(fn_in.book_ids) :
                    fn_out.chunks[i].book_id = fn_in.book_ids[b]
              /\ fn_out.chunks[i].similarity = 50

----------------------------------------------------------------------------
(* Claims about what a run has stored when it writes ready *)

\* the Child Units stored by the run of request r
StoredByRun(r) == { c \in child_chunks : c.parent_id.run = r.run }

----------------------------------------------------------------------------
(* Claims about the event stream of a streaming request *)

\* the events of a stream that has ended
StreamEnded == fn_out.kind = "stream" /\ fn_out.at = "end"

Terminal(e) == e \in {"done", "error"}

\* the positions of the terminal events among evs
TerminalsOf(evs) == { k \in 1..Len(evs) : Terminal(evs[k]) }

\* C40: every event stream produced for a streaming chat request contains
\* exactly one terminal event, done or error, and it is the last event of the
\* stream: no thinking, token, citation, artifact or done event follows an
\* error event, and an error event never follows done.
C40_OneTerminalEventLast ==
    StreamEnded => TerminalsOf(fn_out.events) = {Len(fn_out.events)}

====
